---- MODULE Spec2Model ----
(***************************************************************************)
(* Model of the backup-file codec and dispatcher of signal-back            *)
(* (types/backup.go): NewBackupFile, BackupFile.Frame,                     *)
(* BackupFile.DecryptAttachment and BackupFile.Consume.                    *)
(*                                                                         *)
(* Numbers.  uint32 and int64 quantities do not fit TLC's integers, so a   *)
(* number is kept as a pair <<hi, lo>> of 16-bit limbs, value              *)
(* hi * 2^16 + lo.  A uint32 has hi < 2^16; a file offset (int64) has any  *)
(* hi >= 0.                                                                *)
(*                                                                         *)
(* Bytes.  File content is symbolic: a byte is identified by its offset in *)
(* the file, and a buffer is a sequence of pieces (a range of file bytes,  *)
(* a run of zero bytes, or a copy of the 16 IV bytes).  HMAC-SHA-256 is a  *)
(* collision-free function of its input: a tag stored in the file carries  *)
(* the input it was computed over, and equals a computed MAC exactly when  *)
(* the inputs are the same sequence of bytes.  AES-CTR output is the       *)
(* buffer together with the stream IV and key-stream offset it was XORed   *)
(* with.                                                                   *)
(***************************************************************************)
EXTENDS Integers, Sequences, FiniteSets, TLC

VARIABLES
    runs,       \* the input file: its layout as produced (sequence of runs)
    fileSize,   \* number of bytes the file holds (it may be truncated)
    hdrIV,      \* the 16 IV bytes of the header frame
    fns,        \* the ConsumeFuncs handed to Consume
    shorts,     \* how many more short reads the file may deliver
    pos,        \* bf.file: current offset
    closed,     \* bf.file: Close has been called
    Counter,    \* bf.Counter
    IV,         \* bf.IV
    Mac,        \* bf.Mac: bytes written since the last Reset
    stream,     \* the AES-CTR stream built last: [iv, off]
    pc,         \* control position inside Consume
    cpos,       \* Consume: pos
    length,     \* Consume: length
    f,          \* Consume: f
    di,         \* Consume: index of the next tag-specific consumer to try
    da,         \* DecryptAttachment: parameters and entry state of the call
    dlen,       \* DecryptAttachment: length (bytes still to read)
    buf,        \* DecryptAttachment: buf
    sink,       \* the writes out has received in the current call, in order
    log,        \* consumer invocations, in order
    ret,        \* what the consumer invoked last returned
    result,     \* what Consume returned
    nFrames,    \* frames returned by Frame so far
    nBlobs,     \* DecryptAttachment calls so far
    caller,     \* the method of BackupFile the caller is in
    later,      \* calls made on the BackupFile since Consume returned
    password,   \* NewBackupFile: password (sequence of characters)
    header,     \* the file at path: whether it opens, its first frame
    CipherKey,  \* bf.CipherKey
    MacKey,     \* bf.MacKey
    command,    \* the command run on the BackupFile and what it returned
    table,      \* the column list of a CREATE TABLE statement, as items
    statement_params, \* NewSchema: statement_params (characters)
    schema,     \* the Schema NewSchema returned
    row,        \* the parameter cells of a statement
    call,       \* the arguments of the call on the cells
    pv,         \* the values returned for the cells
    ended,      \* AnalyseFile: ended
    warnings,   \* AnalyseFile: how many times the warning was printed
    w           \* a MultiWriter, its underlying writer and its callers

vars == <<runs, fileSize, hdrIV, fns, shorts, pos, closed, Counter, IV, Mac,
          stream, pc, cpos, length, f, di, da, dlen, buf, sink, log, ret,
          result, nFrames, nBlobs, caller, later, password, header,
          CipherKey, MacKey, command, table, statement_params, schema,
          row, call, pv, ended, warnings, w>>

\* what NewBackupFile reads and derives
session == <<password, header, CipherKey, MacKey>>

\* what NewSchema reads and returns
binder == <<table, statement_params, schema>>

\* what RowValues, Field and ParameterValue read and return
binding == <<row, call, pv>>

\* what the FrameFunc of AnalyseFile keeps between frames
analysis == <<ended, warnings>>

----------------------------------------------------------------------------
(* Limb arithmetic *)

Base == 256 * 256

W(n) == <<n \div Base, n % Base>>

WAdd(a, b) ==
    LET s == a[2] + b[2]
    IN  <<a[1] + b[1] + (s \div Base), s % Base>>

WLt(a, b) == a[1] < b[1] \/ (a[1] = b[1] /\ a[2] < b[2])

WLe(a, b) == a = b \/ WLt(a, b)

\* a - b, for b <= a
WSub(a, b) ==
    IF a[2] >= b[2] THEN <<a[1] - b[1], a[2] - b[2]>>
    ELSE <<a[1] - b[1] - 1, a[2] + Base - b[2]>>

WMin(a, b) == IF WLt(a, b) THEN a ELSE b

\* uint32 addition: the sum modulo 2^32
U32Add(a, b) ==
    LET s == WAdd(a, b)
    IN  <<s[1] % Base, s[2]>>

\* uint32 subtraction: the difference modulo 2^32
U32Sub(a, b) ==
    IF WLe(b, a) THEN WSub(a, b)
    ELSE WSub(<<a[1] + Base, a[2]>>, b)

----------------------------------------------------------------------------
(* Byte conversions (types/backup.go) *)

bytesToUint32(b) == <<b[1] * 256 + b[2], b[3] * 256 + b[4]>>

\* the bytes written in the opposite order
uint32ToBytesLittleEndian(b, val) ==
    [b EXCEPT ![1] = val[2] % 256,
              ![2] = val[2] \div 256,
              ![3] = val[1] % 256,
              ![4] = val[1] \div 256]

uint32ToBytes(b, val) ==
    [b EXCEPT ![4] = val[2] % 256,
              ![3] = val[2] \div 256,
              ![2] = val[1] % 256,
              ![1] = val[1] \div 256]

ATTACHMENT_BUFFER_SIZE == 8192

\* length of the truncated HMAC tag that ends every frame and every blob
MacSize == 10

\* length of the big-endian length prefix of a frame
LengthSize == 4

----------------------------------------------------------------------------
(* Symbolic buffers *)

FilePiece(off, n) == [src |-> "file", off |-> off, n |-> n, iv |-> <<>>]

ZeroPiece(n) == [src |-> "zero", off |-> W(0), n |-> n, iv |-> <<>>]

IVPiece(iv) == [src |-> "iv", off |-> W(0), n |-> W(16), iv |-> iv]

\* bytes no reader of this file ever computes a MAC over
OtherPiece == [src |-> "other", off |-> W(0), n |-> W(1), iv |-> <<>>]

\* acc followed by the piece p, adjacent ranges merged, empty pieces dropped
Append1(acc, p) ==
    IF p.n = W(0) THEN acc
    ELSE IF acc = <<>> THEN <<p>>
    ELSE LET q == acc[Len(acc)]
         IN  IF q.src = "file" /\ p.src = "file" /\ WAdd(q.off, q.n) = p.off
             THEN [acc EXCEPT ![Len(acc)].n = WAdd(q.n, p.n)]
             ELSE IF q.src = "zero" /\ p.src = "zero"
             THEN [acc EXCEPT ![Len(acc)].n = WAdd(q.n, p.n)]
             ELSE Append(acc, p)

RECURSIVE CatFrom(_, _, _)
CatFrom(acc, ps, i) ==
    IF i > Len(ps) THEN acc ELSE CatFrom(Append1(acc, ps[i]), ps, i + 1)

\* concatenation of two buffers
Cat(a, b) == CatFrom(a, b, 1)

RECURSIVE PLenFrom(_, _)
PLenFrom(ps, i) ==
    IF i > Len(ps) THEN W(0) ELSE WAdd(ps[i].n, PLenFrom(ps, i + 1))

\* number of bytes of a buffer
PLen(ps) == PLenFrom(ps, 1)

\* the piece p without its first k bytes (k <= p.n)
PieceDrop(p, k) ==
    [p EXCEPT !.n = WSub(p.n, k),
              !.off = IF p.src = "file" THEN WAdd(p.off, k) ELSE p.off]

RECURSIVE DropFrom(_, _, _)
DropFrom(ps, i, k) ==
    IF i > Len(ps) THEN <<>>
    ELSE IF WLe(ps[i].n, k) THEN DropFrom(ps, i + 1, WSub(k, ps[i].n))
    ELSE Cat(<<PieceDrop(ps[i], k)>>, SubSeq(ps, i + 1, Len(ps)))

\* buf[k:]
Drop(ps, k) == DropFrom(ps, 1, k)

RECURSIVE TakeFrom(_, _, _)
TakeFrom(ps, i, k) ==
    IF i > Len(ps) \/ k = W(0) THEN <<>>
    ELSE IF WLe(ps[i].n, k)
    THEN Cat(<<ps[i]>>, TakeFrom(ps, i + 1, WSub(k, ps[i].n)))
    ELSE <<[ps[i] EXCEPT !.n = k]>>

\* buf[:k]
Take(ps, k) == TakeFrom(ps, 1, k)

\* make([]byte, n)
Make(n) == Cat(<<>>, <<ZeroPiece(n)>>)

----------------------------------------------------------------------------
(* Frames: signal.BackupFrame, a message of optional fields *)

Variants == {"header", "version", "statement", "preference", "keyvalue",
             "attachment", "avatar", "sticker", "end"}

BlobVariants == {"attachment", "avatar", "sticker"}

\* a decoded frame: the fields that are set, and the Length of its blob fields
BackupFrame(has, len) == [has |-> has, len |-> len]

\* new(signal.BackupFrame): no field set
EmptyFrame == BackupFrame({}, W(0))

\* a frame whose End field is set, to v
EndFrame(v) == [has |-> {"end"}, len |-> W(0), end |-> v]

\* f.GetEnd(): the value of End, false when End is not set; an End frame
\* built without a value holds true
GetEnd(fr) ==
    /\ "end" \in fr.has
    /\ ("end" \in DOMAIN fr) => fr.end

GetAttachment(fr) == "attachment" \in fr.has
GetAvatar(fr) == "avatar" \in fr.has
GetSticker(fr) == "sticker" \in fr.has
GetPreference(fr) == "preference" \in fr.has
GetKeyValue(fr) == "keyvalue" \in fr.has
GetStatement(fr) == "statement" \in fr.has
GetLength(fr) == fr.len

HasBlob(fr) == fr.has \cap BlobVariants # {}

----------------------------------------------------------------------------
(* The input file, as a producer lays it out *)

Run(kind, off, n, v, frame, ctr, d) ==
    [kind |-> kind, off |-> off, n |-> n, v |-> v, frame |-> frame,
     ctr |-> ctr, d |-> d]

\* number of bytes of the serialized frame
BodyLen(fr) == W(2 * Cardinality(fr.has))

\* number of blob bytes present in the file after a frame declaring len:
\* all of them, unless the file was cut down to hold none of them
BlobLen(fr, cut) == IF cut THEN W(0) ELSE fr.len

\* the IV a producer encrypts with at counter ctr
IVAt(iv, ctr) == uint32ToBytes(iv, ctr)

\* what the first read of a reader that comes back one byte short makes the
\* code feed to the MAC for a blob of n bytes at off (1 < n < 8192)
PaddedBlob(off, n) ==
    <<FilePiece(off, WSub(n, W(1))), ZeroPiece(W(1)),
      FilePiece(WAdd(off, WSub(n, W(1))), W(1))>>

\* the runs of one frame (and its blob) written at off with counter ctr;
\* defect names what the producer (or later damage) got wrong in it.  A
\* body run of v = 1 holds encrypted bytes that are no encoding of a frame:
\* decoding breaks off with an error after the fields of fr.  With
\* "tinylen" the length prefix holds less than the size of a tag
FrameRuns(fr, off, ctr, iv, defect, cut) ==
    LET bl   == BodyLen(fr)
        boff == WAdd(off, W(LengthSize))
        toff == WAdd(boff, bl)
        eoff == WAdd(toff, W(MacSize))
        ftag == IF defect = "framemac" THEN <<OtherPiece>>
                ELSE Cat(<<>>, <<FilePiece(boff, bl)>>)
        unit == << Run("len", off, W(LengthSize),
                       IF defect = "tinylen" THEN W(MacSize - 1)
                       ELSE WAdd(bl, W(MacSize)),
                       EmptyFrame, W(0), <<>>),
                   Run("body", boff, bl,
                       IF defect = "undecodable" THEN W(1) ELSE W(0),
                       fr, ctr, <<>>),
                   Run("tag", toff, W(MacSize), W(0), EmptyFrame, W(0), ftag) >>
        n    == BlobLen(fr, cut)
        c1   == U32Add(ctr, W(1))
        btag == IF defect = "blobmac" THEN <<OtherPiece>>
                ELSE IF defect = "padtag" /\ WLt(W(1), n)
                                          /\ WLt(n, W(ATTACHMENT_BUFFER_SIZE))
                THEN Cat(<<IVPiece(IVAt(iv, c1))>>, PaddedBlob(eoff, n))
                ELSE Cat(<<IVPiece(IVAt(iv, c1))>>, <<FilePiece(eoff, n)>>)
    IN  IF HasBlob(fr)
        THEN unit \o << Run("blob", eoff, n, W(0), EmptyFrame, c1, <<>>),
                        Run("tag", WAdd(eoff, n), W(MacSize), W(0),
                            EmptyFrame, W(0), btag) >>
        ELSE unit

\* where the runs rs end
EndOf(rs, start) ==
    IF rs = <<>> THEN start
    ELSE WAdd(rs[Len(rs)].off, rs[Len(rs)].n)

RECURSIVE Layout(_, _, _, _, _, _, _, _)
Layout(frs, i, off, ctr, iv, defect, at, cut) ==
    IF i > Len(frs) THEN <<>>
    ELSE LET rs == FrameRuns(frs[i], off, ctr, iv,
                             IF i = at THEN defect ELSE "none", cut)
             c  == IF HasBlob(frs[i]) THEN U32Add(ctr, W(2))
                   ELSE U32Add(ctr, W(1))
         IN  rs \o Layout(frs, i + 1, EndOf(rs, off), c, iv, defect, at,
                           cut)

\* number of bytes of the serialized header frame
HeaderLen == W(2 + 2 + 16 + 2)

\* the whole file: the header frame in clear, then the encrypted frames
Produce(frs, iv, defect, at, cut) ==
    LET hdr == << Run("len", W(0), W(LengthSize), HeaderLen, EmptyFrame,
                      W(0), <<>>),
                  Run("plain", W(LengthSize), HeaderLen, W(0),
                      BackupFrame({"header"}, W(0)), W(0), <<>>) >>
    IN  hdr \o Layout(frs, 1, EndOf(hdr, W(0)), bytesToUint32(iv), iv,
                      defect, at, cut)

----------------------------------------------------------------------------
(* The file as the reader sees it *)

\* bytes a read at offset p can get: those left to the end of the file,
\* none from a closed file
Avail(p) == IF ~closed /\ WLt(p, fileSize) THEN WSub(fileSize, p) ELSE W(0)

\* values a length prefix may have where the four bytes read are not a
\* length prefix the producer wrote (they are cipher text or tag bytes)
GarbageLengths == {W(0), W(MacSize), <<Base - 1, Base - 1>>}

\* the values bytesToUint32 may give for the four bytes at p
LengthAt(p) ==
    LET here == {i \in DOMAIN runs : runs[i].kind = "len" /\ runs[i].off = p}
    IN  IF here # {} THEN {runs[i].v : i \in here} ELSE GarbageLengths

\* a comparison that accepts every tag of the file, whatever it was
\* computed over
HmacEqualAnyTag(theirMac, input) ==
    /\ Len(theirMac) = 1
    /\ theirMac[1].src = "file"
    /\ theirMac[1].n = W(MacSize)
    /\ \E i \in DOMAIN runs :
          /\ runs[i].kind = "tag"
          /\ runs[i].off = theirMac[1].off

\* hmac.Equal(theirMac, mac.Sum(nil)[:10]) for a mac fed the bytes input:
\* the ten bytes are a tag of the file, computed over the same input
HmacEqual(theirMac, input) ==
    /\ Len(theirMac) = 1
    /\ theirMac[1].src = "file"
    /\ theirMac[1].n = W(MacSize)
    /\ \E i \in DOMAIN runs :
          /\ runs[i].kind = "tag"
          /\ runs[i].off = theirMac[1].off
          /\ runs[i].d = input

\* proto.Unmarshal(output, decoded) for output = data XOR key stream of iv:
\* the frame the producer serialized, if data is exactly one frame body and
\* iv the IV it was encrypted with; of a body that breaks off in a
\* malformed field (v = 1), the fields decoded before it.  Otherwise the
\* bytes are no encoding of a frame and decoded keeps no field.  The error
\* Unmarshal returns is dropped by Frame.
Unmarshal(data, iv) ==
    LET here == {i \in DOMAIN runs :
                    /\ runs[i].kind = "body"
                    /\ runs[i].n # W(0)
                    /\ data = <<FilePiece(runs[i].off, runs[i].n)>>
                    /\ iv = IVAt(hdrIV, runs[i].ctr)}
    IN  IF here # {} THEN runs[CHOOSE i \in here : TRUE].frame
        ELSE EmptyFrame

----------------------------------------------------------------------------
(* BackupFile.Frame *)

NoError == "nil"
EOF == "EOF"
ErrUnexpectedEOF == "unexpected EOF"
ErrClosed == "file already closed"
ErrSeekAttachment == "failed to seek over attachment data"
ErrWrongPassword == "Decryption error, wrong password"
ErrReadAttachment == "failed to read attachment data"
Panic == "panic"


NoResult == [tag |-> "", err |-> "running"]

\* the call returns but nothing closes the file
ReturnWithoutClose(tag, err) ==
    /\ result' = [tag |-> tag, err |-> err]
    /\ closed' = closed
    /\ pc' = "done"

\* the method the caller is in returns err, wrapped with tag (or unwinds
\* with a panic); if the method is Consume its deferred bf.Close() runs
Return(tag, err) ==
    /\ result' = [tag |-> tag, err |-> err]
    /\ closed' = (closed \/ caller = "Consume")
    /\ pc' = "done"

\* a read that reports end of file after some bytes as if after none
ReadFullErrorOnlyEOF(p, want) ==
    IF closed THEN ErrClosed
    ELSE IF WLt(Avail(p), want) THEN EOF
    ELSE NoError

\* the error of io.ReadFull(bf.file, b) for len(b) = want > 0 at offset p
ReadFullError(p, want) ==
    IF closed THEN ErrClosed
    ELSE IF Avail(p) = W(0) THEN EOF
    ELSE IF WLt(Avail(p), want) THEN ErrUnexpectedEOF
    ELSE NoError

\* a seek that succeeds on any file
SeekNeverFails == NoError

\* the error of bf.file.Seek(offset, io.SeekCurrent) for offset >= 0
SeekError == IF closed THEN ErrClosed ELSE NoError

\* the IV is re-encoded but the counter left as it was
AdvanceCounterNoIncrement ==
    /\ IV' = uint32ToBytes(IV, Counter)
    /\ Counter' = Counter

\* uint32ToBytes(bf.IV, bf.Counter); bf.Counter++
AdvanceCounter ==
    /\ IV' = uint32ToBytes(IV, Counter)
    /\ Counter' = U32Add(Counter, W(1))

\* Frame(), called by Consume at the offset it recorded, and what Consume
\* does with the error: length, f, err = bf.Frame()
Frame ==
    /\ pc = "frame"
    /\ UNCHANGED <<w, analysis, binding, binder, command, session, runs, fileSize, hdrIV, caller, later, fns, shorts, cpos, di, da, dlen,
                   buf, sink, log, ret, nBlobs>>
    /\ IF ReadFullError(pos, W(LengthSize)) # NoError
       THEN \* Frame returns the error; on io.EOF Consume leaves its loop
            \* and returns nil, any other error it returns as it is
            /\ Return("", IF ReadFullError(pos, W(LengthSize)) = EOF
                             /\ caller = "Consume"
                          THEN NoError
                          ELSE ReadFullError(pos, W(LengthSize)))
            /\ pos' = WAdd(pos, WMin(W(LengthSize), Avail(pos)))
            /\ length' = W(0)
            /\ f' = EmptyFrame
            /\ UNCHANGED <<Counter, IV, Mac, stream, nFrames>>
       ELSE \E frameLength \in LengthAt(pos) :
            LET p             == WAdd(pos, W(LengthSize))
                m             == WMin(frameLength, Avail(p))
                frame         == Cat(<<>>, <<FilePiece(p, m)>>
                                           \o Make(WSub(frameLength, m)))
                messageLength == WSub(frameLength, W(MacSize))
                theirMac      == Drop(frame, messageLength)
                body          == Take(frame, messageLength)
            IN  /\ pos' = WAdd(p, m)
                /\ IF WLt(frameLength, W(MacSize))
                   THEN \* frame[messageLength:] with messageLength < 0
                        /\ Return("", Panic)
                        /\ UNCHANGED <<Counter, IV, Mac, stream, length, f,
                                       nFrames>>
                   ELSE IF ~HmacEqual(theirMac, body)
                   THEN /\ Return("", ErrWrongPassword)
                        /\ Mac' = body
                        /\ length' = W(0)
                        /\ f' = EmptyFrame
                        /\ UNCHANGED <<Counter, IV, stream, nFrames>>
                   ELSE /\ Mac' = body
                        /\ AdvanceCounter
                        /\ stream' = <<[iv |-> IV', off |-> messageLength]>>
                        /\ f' = Unmarshal(body, IV')
                        /\ length' = frameLength
                        /\ nFrames' = nFrames + 1
                        /\ IF caller = "Consume"
                           THEN /\ pc' = "framefunc"
                                /\ UNCHANGED <<closed, result>>
                           ELSE Return("", NoError)

----------------------------------------------------------------------------
(* BackupFile.Consume *)

\* the tag-specific consumers, in the order Consume tries them
Consumers == <<"attachment", "avatar", "sticker", "preference", "keyvalue",
               "statement">>

\* the ConsumeFuncs field a consumer is held in; "nil" when unset
FnOf(fs, name) ==
    CASE name = "attachment" -> fs.AttachmentFunc
      [] name = "avatar"     -> fs.AvatarFunc
      [] name = "sticker"    -> fs.StickerFunc
      [] name = "preference" -> fs.PreferenceFunc
      [] name = "keyvalue"   -> fs.KeyValueFunc
      [] name = "statement"  -> fs.StatementFunc

\* f.GetAttachment() != nil, f.GetAvatar() != nil, ...
GetField(fr, name) ==
    CASE name = "attachment" -> GetAttachment(fr)
      [] name = "avatar"     -> GetAvatar(fr)
      [] name = "sticker"    -> GetSticker(fr)
      [] name = "preference" -> GetPreference(fr)
      [] name = "keyvalue"   -> GetKeyValue(fr)
      [] name = "statement"  -> GetStatement(fr)

\* an unset blob consumer becomes one that calls DecryptAttachment(n, nil)
Default(fn) == IF fn = "nil" THEN "default" ELSE fn

\* an invocation that is handed the offset the file is at now
EventAtReadPosition(name) ==
    [fn |-> name, f |-> f, pos |-> pos, length |-> length]

\* an invocation of consumer name for the frame Consume holds: FrameFunc is
\* handed f, the offset recorded before the frame was read, and its length
Event(name) == [fn |-> name, f |-> f, pos |-> cpos, length |-> length]

NoCall == [fn |-> "", length |-> W(0), out |-> "nil", pos0 |-> W(0),
           ctr0 |-> W(0)]

\* entry of Consume: the defaults of the blob consumers are installed
Consume ==
    /\ pc = "start"
    /\ fns' = [fns EXCEPT !.AttachmentFunc = Default(@),
                          !.AvatarFunc = Default(@),
                          !.StickerFunc = Default(@)]
    /\ pc' = "seek"
    /\ UNCHANGED <<w, analysis, binding, binder, command, session, runs, fileSize, hdrIV, caller, later, shorts, pos, closed, Counter, IV,
                   Mac, stream, cpos, length, f, di, da, dlen, buf, sink,
                   log, ret, result, nFrames, nBlobs>>

\* top of the loop: pos, err = bf.file.Seek(0, io.SeekCurrent)
Seek ==
    /\ pc = "seek"
    /\ IF SeekError # NoError
       THEN /\ Return("consume [seek]", SeekError)
            /\ UNCHANGED cpos
       ELSE /\ cpos' = pos
            /\ pc' = "frame"
            /\ UNCHANGED <<closed, result>>
    /\ UNCHANGED <<w, analysis, binding, binder, command, session, runs, fileSize, hdrIV, caller, later, fns, shorts, pos, Counter, IV, Mac,
                   stream, length, f, di, da, dlen, buf, sink, log, ret,
                   nFrames, nBlobs>>

\* what a consumer given by the caller may do when invoked: return nil,
\* return an error of its own, or panic
ErrConsumer == "consumer error"
Pending == "pending"
Outcomes == {NoError, ErrConsumer, Panic}

\* the consumer name returned err and Consume goes on to nextpc whatever
\* err is
ConsumerReturnedIgnored(name, err, nextpc) ==
    /\ ret' = err
    /\ pc' = nextpc
    /\ UNCHANGED <<closed, result>>

\* if err = fn(...); err != nil { return errors.Wrap(err, "consume [name]") }
\* (a panic of the consumer unwinds Consume, unwrapped)
ConsumerReturned(name, err, nextpc) ==
    /\ ret' = err
    /\ IF err = NoError
       THEN /\ pc' = nextpc
            /\ UNCHANGED <<closed, result>>
       ELSE IF err = Panic
       THEN Return("", Panic)
       ELSE Return("consume [" \o name \o "]", err)

\* the FrameFunc of AnalyseFile: the warning is printed when ended is 1
Warned(e, n) == IF e = 1 THEN n + 1 ELSE n

\* the FrameFunc of AnalyseFile: ended is incremented from 1 when the
\* warning is printed, and set to 1 by an End frame that is true
EndedAfter(e, fr) ==
    IF GetEnd(fr) THEN 1
    ELSE IF e = 1 THEN e + 1 ELSE e

\* the FrameFunc of AnalyseFile returns nil; on a Statement frame
\* strings.Split(stmt, " ")[0:3] panics if the statement has fewer than
\* three words
AnalyseOutcomes(fr) ==
    IF GetStatement(fr) THEN {NoError, Panic} ELSE {NoError}

\* fns.FrameFunc(f, pos, length), when set
FrameFunc ==
    /\ pc = "framefunc"
    /\ di' = 1
    /\ IF fns.FrameFunc # "nil"
       THEN /\ log' = Append(log, Event("frame"))
            /\ IF command.name = "AnalyseFile"
               THEN \E err \in AnalyseOutcomes(f) :
                       /\ warnings' = Warned(ended, warnings)
                       /\ ended' = IF err = NoError
                                   THEN EndedAfter(ended, f)
                                   ELSE EndedAfter(ended, EmptyFrame)
                       /\ ConsumerReturned("frame", err, "dispatch")
               ELSE /\ \E err \in Outcomes :
                          ConsumerReturned("frame", err, "dispatch")
                    /\ UNCHANGED analysis
       ELSE /\ pc' = "dispatch"
            /\ UNCHANGED <<log, ret, closed, result, analysis>>
    /\ UNCHANGED <<w, binding, binder, command, session, runs, fileSize, hdrIV, caller, later, fns, shorts, pos, Counter,
                   IV, Mac, stream, cpos, length, f, da, dlen, buf, sink,
                   nFrames, nBlobs>>

\* the consumers from index k on that are set, whatever f carries
DueWhateverTheFrame(k) ==
    {j \in k..Len(Consumers) : FnOf(fns, Consumers[j]) # "nil"}

\* the consumers from index k on that are set and whose field f carries
Due(k) ==
    {j \in k..Len(Consumers) :
        FnOf(fns, Consumers[j]) # "nil" /\ GetField(f, Consumers[j])}

\* the next tag-specific consumer that is set and whose field is present is
\* invoked; with none left the loop starts over
Dispatch ==
    /\ pc = "dispatch"
    /\ IF Due(di) = {}
       THEN /\ pc' = "seek"
            /\ UNCHANGED <<di, da, log, ret, closed, result>>
       ELSE LET j    == CHOOSE j \in Due(di) : \A i \in Due(di) : j <= i
                name == Consumers[j]
                fn   == FnOf(fns, name)
            IN  /\ di' = j + 1
                /\ log' = Append(log, Event(name))
                /\ \/ \* a blob consumer gets to its DecryptAttachment call
                      /\ name \in BlobVariants
                      /\ da' = [NoCall EXCEPT
                                  !.fn = name,
                                  !.length = GetLength(f),
                                  !.out = IF fn = "default" THEN "nil"
                                          ELSE "sink"]
                      /\ ret' = Pending
                      /\ pc' = "decrypt"
                      /\ UNCHANGED <<closed, result>>
                   \/ \* a consumer of the caller returns or panics (a blob
                      \* consumer before it gets to DecryptAttachment)
                      /\ fn # "default"
                      /\ \E err \in Outcomes :
                            /\ name \in BlobVariants => err # NoError
                            /\ ConsumerReturned(name, err, "dispatch")
                      /\ UNCHANGED da
    /\ UNCHANGED <<w, analysis, binding, binder, command, session, runs, fileSize, hdrIV, caller, later, fns, shorts, pos, Counter,
                   IV, Mac, stream, cpos, length, f, dlen, buf, sink,
                   nFrames, nBlobs>>

----------------------------------------------------------------------------
(* BackupFile.DecryptAttachment *)

\* the offset handed to bf.file.Seek: int64(length + 10), the sum taken in
\* uint32
SeekOffset(len) == U32Add(len, W(MacSize))

\* DecryptAttachment returns err to the blob consumer, which returns it to
\* Consume
ReturnFromDecrypt(err) ==
    IF caller = "Consume"
    THEN ConsumerReturned(da.fn, err, "dispatch")
    ELSE /\ Return("", err)
         /\ UNCHANGED ret

\* the numbers of bytes bf.file.Read may store in a buffer of len bytes at
\* the current offset: all it can, or fewer (but at least one)
ReadCounts(len) ==
    LET full == WMin(len, Avail(pos))
    IN  {full} \cup
        (IF shorts > 0
         THEN {n \in {W(1), WSub(full, W(1))} : WLt(W(0), n) /\ WLt(n, full)}
         ELSE {})

\* a MAC that is reset and fed nothing
StartMacEmpty(iv) == <<>>

\* bf.Mac.Reset(); bf.Mac.Write(bf.IV)
StartMac(iv) == <<IVPiece(iv)>>

\* entry of DecryptAttachment(length, out): counter and IV, then either the
\* seek over the blob (out == nil) or the set-up of cipher stream and MAC
DecryptAttachment ==
    /\ pc = "decrypt"
    /\ AdvanceCounter
    /\ nBlobs' = nBlobs + 1
    /\ da' = [da EXCEPT !.pos0 = pos, !.ctr0 = Counter]
    /\ IF da.out = "nil"
       THEN /\ pos' = IF SeekError = NoError
                      THEN WAdd(pos, SeekOffset(da.length)) ELSE pos
            /\ ReturnFromDecrypt(IF SeekError = NoError THEN NoError
                                 ELSE ErrSeekAttachment)
            /\ UNCHANGED <<Mac, stream, dlen, buf, sink>>
       ELSE /\ stream' = <<[iv |-> IV', off |-> W(0)]>>
            /\ Mac' = StartMac(IV')
            /\ sink' = <<>>
            /\ buf' = Make(W(ATTACHMENT_BUFFER_SIZE))
            /\ dlen' = da.length
            /\ pc' = "read"
            /\ UNCHANGED <<pos, ret, closed, result>>
    /\ UNCHANGED <<w, analysis, binding, binder, command, session, runs, fileSize, hdrIV, caller, later, fns, shorts, cpos, length, f, di,
                   log, nFrames>>

\* one turn of the loop `for length > 0`
DecryptRead ==
    /\ pc = "read"
    /\ dlen # W(0)
    /\ LET b0 == IF WLt(dlen, W(ATTACHMENT_BUFFER_SIZE)) THEN Make(dlen)
                 ELSE buf
       IN  IF Avail(pos) = W(0)
           THEN \* Read returns 0 and io.EOF, or the error of a closed file
                /\ ReturnFromDecrypt(ErrReadAttachment)
                /\ buf' = b0
                /\ UNCHANGED <<shorts, pos, Mac, stream, dlen, sink>>
           ELSE \E n \in ReadCounts(PLen(b0)) :
                LET b1 == Cat(<<FilePiece(pos, n)>>, Drop(b0, n))
                IN  /\ shorts' = IF n = WMin(PLen(b0), Avail(pos))
                                 THEN shorts ELSE shorts - 1
                    /\ pos' = WAdd(pos, n)
                    /\ buf' = b1
                    /\ Mac' = Cat(Mac, b1)
                    /\ sink' = Append(sink, [data |-> b1,
                                             iv |-> stream[1].iv,
                                             off |-> stream[1].off])
                    /\ stream' = <<[stream[1] EXCEPT
                                      !.off = WAdd(@, PLen(b1))]>>
                    /\ dlen' = U32Sub(dlen, n)
                    /\ UNCHANGED <<pc, ret, closed, result>>
    /\ UNCHANGED <<w, analysis, binding, binder, command, session, runs, fileSize, hdrIV, caller, later, fns, Counter, IV, cpos, length, f,
                   di, da, log, nFrames, nBlobs>>

\* after the loop: the ten tag bytes are read and compared
DecryptTag ==
    /\ pc = "read"
    /\ dlen = W(0)
    /\ LET m        == WMin(W(MacSize), Avail(pos))
           theirMac == Cat(<<>>, <<FilePiece(pos, m)>>
                                 \o Make(WSub(W(MacSize), m)))
       IN  /\ pos' = WAdd(pos, m)
           /\ IF HmacEqual(theirMac, Mac)
              THEN ReturnFromDecrypt(NoError)
              ELSE ReturnFromDecrypt(ErrWrongPassword)
    /\ UNCHANGED <<w, analysis, binding, binder, command, session, runs, fileSize, hdrIV, caller, later, fns, shorts, Counter, IV, Mac,
                   stream, cpos, length, f, di, da, dlen, buf, sink, log,
                   nFrames, nBlobs>>

----------------------------------------------------------------------------
(* NewBackupFile and backupKey *)

\* the white space strings.TrimSpace strips, as far as the modelled
\* alphabet has it
Whitespace == {" ", "\t"}

RECURSIVE TrimLeft(_)
TrimLeft(str) ==
    IF str # <<>> /\ Head(str) \in Whitespace THEN TrimLeft(Tail(str))
    ELSE str

RECURSIVE TrimRight(_)
TrimRight(str) ==
    IF str # <<>> /\ str[Len(str)] \in Whitespace
    THEN TrimRight(SubSeq(str, 1, Len(str) - 1))
    ELSE str

\* strings.TrimSpace(str)
TrimSpace(str) == TrimRight(TrimLeft(str))

\* strings.Replace(str, old, new, -1) for a one-character old
RECURSIVE Replace(_, _, _)
Replace(str, old, new) ==
    IF str = <<>> THEN <<>>
    ELSE (IF Head(str) = old THEN new ELSE <<Head(str)>>)
         \o Replace(Tail(str), old, new)

\* a key derived from the password with its ends trimmed and nothing else
backupKeyTrimOnly(pass, salt) ==
    [salt |-> salt, input |-> TrimSpace(pass)]

\* backupKey(password, salt): the first 32 bytes of the SHA-512 digest
\* after 250000 rounds, as a collision-free function of the bytes written
\* to the digest: the salt (none when nil) and the input
backupKey(pass, salt) ==
    [salt |-> salt, input |-> Replace(TrimSpace(pass), " ", <<>>)]

\* deriveSecrets(input, info): 64 bytes of HKDF-SHA-256 output
deriveSecrets(input, info) == [hkdf |-> input, info |-> info]

\* derived[:32] and derived[32:]
cipherKey(derived) == [from |-> 0, to |-> 32, of |-> derived]
macKey(derived) == [from |-> 32, to |-> 64, of |-> derived]

NoKey == <<>>

\* the file at path: whether it can be stat'ed and opened, how many bytes
\* it holds, the value of its first four bytes, whether the bytes after
\* them decode as a BackupFrame, whether that frame has its Header field
\* set, and the version, iv and salt of that Header
HeaderFile(file, size, hl, decodes, isHeader, version, iv, salt) ==
    [file |-> file, size |-> size, headerLength |-> hl, decodes |-> decodes,
     isHeader |-> isHeader, version |-> version, iv |-> iv, salt |-> salt]

\* NewBackupFile returns (nil, err), or panics
Fail(msg, err) ==
    /\ result' = [tag |-> msg, err |-> err]
    /\ pc' = "failed"
    /\ UNCHANGED <<pos, Counter, IV, CipherKey, MacKey>>

\* NewBackupFile(path, password)
NewBackupFile ==
    /\ pc = "new"
    /\ LET h == header
           p == WAdd(W(LengthSize), h.headerLength)
       IN  IF h.file = "absent"
           THEN Fail("unable to get size of backup file", "no such file")
           ELSE IF h.file = "unreadable"
           THEN Fail("unable to open backup file", "permission denied")
           ELSE IF ReadFullError(W(0), W(LengthSize)) # NoError
           THEN Fail("failed to read headerLengthBytes",
                     ReadFullError(W(0), W(LengthSize)))
           ELSE IF h.headerLength # W(0)
                   /\ ReadFullError(W(LengthSize), h.headerLength) # NoError
           THEN Fail("failed to read headerFrame",
                     ReadFullError(W(LengthSize), h.headerLength))
           ELSE IF ~h.decodes
           THEN Fail("failed to decode header", "proto: cannot parse")
           ELSE IF h.isHeader /\ h.version > 0
           THEN Fail("", "File Version not yet supported")
           ELSE IF ~h.isHeader
           THEN \* frame.Header is nil: GetVersion() gives 0, and
                \* frame.Header.Iv dereferences the nil pointer
                Fail("", Panic)
           ELSE IF Len(h.iv) # 16
           THEN Fail("", "No IV in header")
           ELSE /\ CipherKey' = cipherKey(deriveSecrets(
                                    backupKey(password, h.salt),
                                    "Backup Export"))
                /\ MacKey' = macKey(deriveSecrets(
                                    backupKey(password, h.salt),
                                    "Backup Export"))
                /\ IV' = h.iv
                /\ Counter' = bytesToUint32(h.iv)
                /\ pos' = p
                /\ pc' = "start"
                /\ UNCHANGED result
    /\ UNCHANGED <<w, analysis, binding, binder, command, password, header, runs, fileSize, hdrIV, fns, shorts,
                   closed, Mac, stream, cpos, length, f, di, da, dlen, buf,
                   sink, log, ret, nFrames, nBlobs, caller, later>>

----------------------------------------------------------------------------
(* Inputs *)

\* how many frames follow the header in a modelled file
MaxFrames == 2

\* how many reads of a run may come back short
MaxShortReads == 1

\* header IVs: a counter that wraps at once, and one whose increment
\* carries from the low into the high half
IVs == { <<255, 255, 255, 255>> \o [i \in 1..12 |-> 16 + i],
         <<1, 2, 255, 255>> \o [i \in 1..12 |-> 16 + i] }

FrameKinds == { {"version"}, {"statement"}, {"preference"}, {"keyvalue"},
                {"attachment"}, {"avatar"}, {"sticker"}, {"end"}, {},
                {"attachment", "statement"} }

\* declared blob lengths: empty, small, one buffer, more than one buffer,
\* the largest whose length + 10 fits 32 bits, the largest of all
Lengths == { W(0), W(2), W(ATTACHMENT_BUFFER_SIZE),
             W(ATTACHMENT_BUFFER_SIZE + 1),
             <<Base - 1, Base - 1 - MacSize>>, <<Base - 1, Base - 1>> }

Defects == {"none", "framemac", "blobmac", "padtag", "shortlen", "nobody",
            "shorttag", "undecodable", "tinylen"}

\* how many bytes a file laid out as rs holds once the defect is in it: a
\* file may end two bytes into the length prefix of its last frame, right
\* after that prefix, or one byte before the end of that frame's tag
FileEnd(rs, defect) ==
    LET lens == {i \in DOMAIN rs : rs[i].kind = "len"}
        last == CHOOSE i \in lens : \A j \in lens : j <= i
    IN  CASE defect = "shortlen" -> WAdd(rs[last].off, W(2))
          [] defect = "nobody"   -> WAdd(rs[last].off, W(LengthSize))
          [] defect = "shorttag" -> WAdd(rs[last + 2].off, W(MacSize - 1))
          [] OTHER               -> EndOf(rs, W(0))

\* the kinds of the frames after the first
FollowKinds == { {"statement"}, {"attachment"}, {"sticker"}, {"end"} }

\* the salt of the header, and the password the files were written under
Salt == <<"s", "a", "l", "t">>
DefaultPassword == <<"a", "b">>

Funcs(ff, bf, tf) ==
    [FrameFunc |-> ff, AttachmentFunc |-> bf, AvatarFunc |-> bf,
     StickerFunc |-> bf, PreferenceFunc |-> tf, KeyValueFunc |-> tf,
     StatementFunc |-> tf]

\* every consumer set and the blobs streamed to a sink (as ExtractFiles and
\* AnalyseFile do); no consumer set; and two mixtures
FuncChoices == { Funcs("set", "sink", "set"), Funcs("nil", "nil", "nil"),
                 Funcs("set", "nil", "set"), Funcs("nil", "sink", "nil") }

\* no MultiWriter has been made
NoWriter == [Writer |-> <<>>, err |-> NoError, calls |-> 0, reported |-> <<>>]

\* no call has been made on parameter cells
NoArguments == [fn |-> "", column |-> <<>>, typ |-> 0]

\* no Schema has been built
NoSchema == [Index |-> <<>>, Type |-> <<>>]

\* no command has been started on the BackupFile
Running == "running"

NoCommand == [name |-> "none", returned |-> Running, exit |-> Running]

FrameSeqs ==
    UNION { {s \in [1..k -> FrameKinds] :
                \A i \in 2..k : s[i] \in FollowKinds} : k \in 0..MaxFrames }

\* the state NewBackupFile leaves, on the file of frames frs written under
\* header IV iv with the defect in frame at, handed to Consume with fs
Opened(frs, iv, defect, at, cut, fs) ==
    /\ runs = Produce(frs, iv, defect, at, cut)
    /\ fileSize = FileEnd(Produce(frs, iv, defect, at, cut), defect)
    /\ hdrIV = iv
    /\ fns = fs
    /\ shorts = MaxShortReads
    /\ pos = WAdd(W(LengthSize), HeaderLen)
    /\ closed = FALSE
    /\ Counter = bytesToUint32(iv)
    /\ IV = iv
    /\ Mac = <<>>
    /\ stream = <<>>
    /\ pc = "start"
    /\ cpos = W(0)
    /\ length = W(0)
    /\ f = EmptyFrame
    /\ di = 1
    /\ da = NoCall
    /\ dlen = W(0)
    /\ buf = <<>>
    /\ sink = <<>>
    /\ log = <<>>
    /\ ret = NoError
    /\ result = NoResult
    /\ nFrames = 0
    /\ nBlobs = 0
    /\ caller = "Consume"
    /\ later = 0
    /\ password = DefaultPassword
    /\ header = HeaderFile("present", FileEnd(Produce(frs, iv, defect, at, cut), defect), HeaderLen,
                           TRUE, TRUE, 0, iv, Salt)
    /\ CipherKey = cipherKey(deriveSecrets(
                       backupKey(DefaultPassword, Salt),
                       "Backup Export"))
    /\ MacKey = macKey(deriveSecrets(
                       backupKey(DefaultPassword, Salt),
                       "Backup Export"))
    /\ command = NoCommand
    /\ table = <<>>
    /\ statement_params = <<>>
    /\ schema = NoSchema
    /\ row = <<>>
    /\ call = NoArguments
    /\ pv = <<>>
    /\ ended = 0
    /\ warnings = 0
    /\ w = NoWriter

Init ==
    \E kinds \in FrameSeqs, len \in Lengths, iv \in IVs, defect \in Defects,
       cut \in BOOLEAN, fs \in FuncChoices :
        LET frs == [i \in DOMAIN kinds |->
                       BackupFrame(kinds[i],
                                   IF kinds[i] \cap BlobVariants # {}
                                   THEN len ELSE W(0))]
            \* a defect is in the last frame: no frame after it is read
            at  == Len(frs)
        IN  \* each file is listed once
            /\ (\A i \in DOMAIN frs : ~HasBlob(frs[i])) => len = W(0)
            \* only blobs of 2^16 bytes and more are cut out, and a file
            \* that holds such a blob whole is read in skip mode (a sink
            \* would take 2^19 turns of the read loop)
            /\ cut => len[1] # 0
            /\ (len[1] # 0 /\ ~cut) => fs.AttachmentFunc = "nil"
            /\ defect # "none" => frs # <<>>
            /\ defect \in {"blobmac", "padtag"} => HasBlob(frs[at])
            /\ defect = "padtag" => len = W(2)
            \* a file that ends early is read under one header IV, with
            \* FrameFunc set
            /\ defect \in {"shortlen", "nobody", "shorttag", "undecodable",
                          "tinylen"} =>
                  (iv[1] = 1 /\ fs.FrameFunc # "nil")
            \* the frame of no bytes decodes
            /\ defect = "undecodable" => frs[at].has # {}
            /\ Opened(frs, iv, defect, at, cut, fs)

Next ==
    \/ Consume
    \/ Seek
    \/ Frame
    \/ FrameFunc
    \/ Dispatch
    \/ DecryptAttachment
    \/ DecryptRead
    \/ DecryptTag

Spec == Init /\ [][Next]_vars

----------------------------------------------------------------------------
(* A caller that goes on using the BackupFile after Consume has returned *)

\* how many calls the caller makes after Consume returned
MaxLaterCalls == 1

\* the lengths the caller passes to DecryptAttachment
LaterLengths == {W(0), W(2)}

\* the caller starts a call of method on the BackupFile
Call(method) ==
    /\ pc = "done"
    /\ later < MaxLaterCalls
    /\ later' = later + 1
    /\ caller' = method
    /\ result' = NoResult

\* bf.Consume(fns) once more
CallConsume ==
    /\ Call("Consume")
    /\ pc' = "start"
    /\ UNCHANGED <<w, analysis, binding, binder, command, session, runs, fileSize, hdrIV, fns, shorts, pos, closed,
                   Counter, IV, Mac, stream, cpos, length, f, di, da, dlen,
                   buf, sink, log, ret, nFrames, nBlobs>>

\* bf.Frame()
CallFrame ==
    /\ Call("Frame")
    /\ pc' = "frame"
    /\ UNCHANGED <<w, analysis, binding, binder, command, session, runs, fileSize, hdrIV, fns, shorts, pos, closed,
                   Counter, IV, Mac, stream, cpos, length, f, di, da, dlen,
                   buf, sink, log, ret, nFrames, nBlobs>>

\* bf.DecryptAttachment(n, out)
CallDecryptAttachment ==
    /\ Call("DecryptAttachment")
    /\ \E n \in LaterLengths, out \in {"nil", "sink"} :
          da' = [NoCall EXCEPT !.length = n, !.out = out]
    /\ pc' = "decrypt"
    /\ UNCHANGED <<w, analysis, binding, binder, command, session, runs, fileSize, hdrIV, fns, shorts, pos, closed,
                   Counter, IV, Mac, stream, cpos, length, f, di, dlen, buf,
                   sink, log, ret, nFrames, nBlobs>>

\* the files of at most one frame, under one header IV
InitSpent ==
    /\ Init
    /\ Len(SelectSeq(runs, LAMBDA r : r.kind = "body")) <= 1
    /\ hdrIV[1] = 1

NextSpent ==
    \/ Next
    \/ CallConsume
    \/ CallFrame
    \/ CallDecryptAttachment

SpecSpent == InitSpent /\ [][NextSpent]_vars

----------------------------------------------------------------------------
(* Opening a file: NewBackupFile on every kind of first frame *)

\* longest password tried
MaxPassLen == 3

\* the characters of the passwords: two that are no white space, the
\* space, and a white space that is not the space
Alphabet == {"a", "b", " ", "\t"}

Passwords == UNION { [1..n -> Alphabet] : n \in 0..MaxPassLen }

\* a file whose first frame is a Header of version 0 with a 16-byte IV
ValidHeaders ==
    { HeaderFile("present", WAdd(W(LengthSize), HeaderLen), HeaderLen, TRUE,
                 TRUE, 0, iv, salt) : iv \in IVs, salt \in {<<>>, Salt} }

\* no file, a file that cannot be opened, files that end before or inside
\* the first frame, first frames that do not decode, that decode to a frame
\* without Header (among them the frame of no bytes), Headers of another
\* version or with an IV that is absent, too short or too long
BadHeaders ==
    LET iv16 == CHOOSE iv \in IVs : TRUE
        whole == WAdd(W(LengthSize), HeaderLen)
    IN  { HeaderFile("absent", W(0), W(0), FALSE, FALSE, 0, <<>>, <<>>),
          HeaderFile("unreadable", whole, HeaderLen, TRUE, TRUE, 0, iv16,
                     Salt),
          HeaderFile("present", W(0), W(0), FALSE, FALSE, 0, <<>>, <<>>),
          HeaderFile("present", W(2), W(0), FALSE, FALSE, 0, <<>>, <<>>),
          HeaderFile("present", W(LengthSize + 10), HeaderLen, FALSE, FALSE,
                     0, <<>>, <<>>),
          HeaderFile("present", whole, HeaderLen, FALSE, FALSE, 0, <<>>,
                     <<>>),
          HeaderFile("present", W(LengthSize), W(0), TRUE, FALSE, 0, <<>>,
                     <<>>),
          HeaderFile("present", whole, HeaderLen, TRUE, FALSE, 0, <<>>,
                     <<>>),
          HeaderFile("present", whole, HeaderLen, TRUE, TRUE, 1, iv16, Salt),
          HeaderFile("present", whole, HeaderLen, TRUE, TRUE, 0, <<>>, Salt),
          HeaderFile("present", whole, HeaderLen, TRUE, TRUE, 0,
                     SubSeq(iv16, 1, 12), Salt),
          HeaderFile("present", whole, HeaderLen, TRUE, TRUE, 0,
                     iv16 \o <<0>>, Salt) }

InitNew ==
    \E h \in ValidHeaders \cup BadHeaders, pw \in Passwords :
        \* every password is tried on the files that open
        /\ h \in BadHeaders => pw = DefaultPassword
        /\ header = h
        /\ password = pw
        /\ CipherKey = NoKey
        /\ MacKey = NoKey
        /\ runs = IF h \in ValidHeaders
                  THEN Produce(<<>>, h.iv, "none", 0, FALSE) ELSE <<>>
        /\ fileSize = h.size
        /\ hdrIV = h.iv
        /\ fns = Funcs("nil", "nil", "nil")
        /\ shorts = 0
        /\ pos = W(0)
        /\ closed = FALSE
        /\ Counter = W(0)
        /\ IV = <<>>
        /\ Mac = <<>>
        /\ stream = <<>>
        /\ pc = "new"
        /\ cpos = W(0)
        /\ length = W(0)
        /\ f = EmptyFrame
        /\ di = 1
        /\ da = NoCall
        /\ dlen = W(0)
        /\ buf = <<>>
        /\ sink = <<>>
        /\ log = <<>>
        /\ ret = NoError
        /\ result = NoResult
        /\ nFrames = 0
        /\ nBlobs = 0
        /\ caller = "NewBackupFile"
        /\ later = 0
        /\ command = NoCommand
        /\ table = <<>>
        /\ statement_params = <<>>
        /\ schema = NoSchema
        /\ row = <<>>
        /\ call = NoArguments
        /\ pv = <<>>
        /\ ended = 0
        /\ warnings = 0
        /\ w = NoWriter

NextNew == NewBackupFile

SpecNew == InitNew /\ [][NextNew]_vars

----------------------------------------------------------------------------
(* The commands: ExtractFiles and AnalyseFile around Consume, and main *)

\* main: app.Run returned err; an error is printed and the process exits
\* with 1
ExitCode(err) == IF err # NoError THEN 1 ELSE 0

\* the Action of the command: a non-nil error of the function is wrapped
\* and returned to app.Run
Action(err) == ExitCode(err)

\* the deferred function of ExtractFiles and AnalyseFile: a panic is
\* recovered and logged, and the function returns its result values, which
\* are unnamed and were never assigned
Recover(r) == NoError

\* ExtractFiles(bf, c, base) is entered: it builds fns and calls
\* bf.Consume(fns)
ExtractFiles ==
    /\ pc = "start"
    /\ caller = "Consume"
    /\ command = NoCommand
    /\ command' = [command EXCEPT !.name = "ExtractFiles"]
    /\ UNCHANGED <<w, analysis, binding, binder, session, runs, fileSize, hdrIV, fns, shorts, pos, closed,
                   Counter, IV, Mac, stream, pc, cpos, length, f, di, da,
                   dlen, buf, sink, log, ret, result, nFrames, nBlobs,
                   caller, later>>

\* the fns of AnalyseFile: FrameFunc and StatementFunc, and the three blob
\* consumers decrypting into data_sink
AnalyseFuncs ==
    [Funcs("set", "sink", "set") EXCEPT !.PreferenceFunc = "nil",
                                        !.KeyValueFunc = "nil"]

\* AnalyseFile(bf, c) is entered: it builds fns and calls bf.Consume(fns).
\* The files analysed hold no blob of 2^16 bytes or more (decrypting one
\* takes 2^19 turns of the read loop)
AnalyseFile ==
    /\ pc = "start"
    /\ caller = "Consume"
    /\ command = NoCommand
    /\ \A i \in DOMAIN runs : runs[i].kind = "blob" => runs[i].n[1] = 0
    /\ command' = [command EXCEPT !.name = "AnalyseFile"]
    /\ fns' = AnalyseFuncs
    /\ ended' = 0
    /\ UNCHANGED <<w, warnings, binding, binder, session, runs, fileSize,
                   hdrIV, shorts, pos, closed, Counter, IV, Mac, stream, pc,
                   cpos, length, f, di, da, dlen, buf, sink, log, ret,
                   result, nFrames, nBlobs, caller, later>>

\* bf.Consume(fns) is over: it returned an error, which the command
\* returns; or it returned nil, and the command finishes and returns nil;
\* or it unwound with a panic, which the deferred function recovers
CommandReturns ==
    /\ pc = "done"
    /\ caller = "Consume"
    /\ command.name # "none"
    /\ command.returned = Running
    /\ LET err == IF result.err = Panic THEN Recover(result.err)
                  ELSE result.err
       IN  command' = [command EXCEPT !.returned = err,
                                      !.exit = Action(err)]
    /\ pc' = "exited"
    /\ UNCHANGED <<w, analysis, binding, binder, session, runs, fileSize, hdrIV, fns, shorts, pos, closed,
                   Counter, IV, Mac, stream, cpos, length, f, di, da,
                   dlen, buf, sink, log, ret, result, nFrames, nBlobs,
                   caller, later>>

\* the commands run on the files of at most one frame, under one header IV
InitRun == InitSpent

NextRun ==
    \/ Next
    \/ ExtractFiles
    \/ AnalyseFile
    \/ CommandReturns

SpecRun == InitRun /\ [][NextRun]_vars

----------------------------------------------------------------------------
(* AnalyseFile on files that hold End frames *)

\* how many frames the analysed files hold
MaxAnalyseFrames == 3

\* the frames of the analysed files: End frames of either value, a frame
\* without blob and a frame with one
AnalyseFrames == { EndFrame(TRUE), EndFrame(FALSE),
                   BackupFrame({"version"}, W(0)),
                   BackupFrame({"attachment"}, W(2)) }

AnalyseSeqs == UNION { [1..k -> AnalyseFrames] : k \in 0..MaxAnalyseFrames }

AnalyseIV == <<1, 2, 3, 4, 17, 18, 19, 20, 21, 22, 23, 24, 25, 26, 27, 28>>

InitAnalyse ==
    \E frs \in AnalyseSeqs :
        Opened(frs, AnalyseIV, "none", 0, FALSE, AnalyseFuncs)

NextAnalyse ==
    \/ Next
    \/ AnalyseFile
    \/ CommandReturns

SpecAnalyse == InitAnalyse /\ [][NextAnalyse]_vars

----------------------------------------------------------------------------
(* The schema binder: NewSchema on the column list of a CREATE TABLE *)

CT_None == 0

CT_Text == 1

CT_Integer == 2

CT_Real == 3

CT_Blob == 4

TEXT == <<"T", "E", "X", "T">>

INTEGER == <<"I", "N", "T", "E", "G", "E", "R">>

REAL == <<"R", "E", "A", "L">>

BLOB == <<"B", "L", "O", "B">>

columnTypeFromString(str) ==
    CASE str = TEXT    -> CT_Text
      [] str = INTEGER -> CT_Integer
      [] str = REAL    -> CT_Real
      [] str = BLOB    -> CT_Blob
      [] OTHER         -> CT_None

\* strings.Index(str, ch) for a substring ch of one character: the offset of
\* its first occurrence, -1 if there is none
RECURSIVE IndexFrom(_, _, _)
IndexFrom(str, ch, k) ==
    IF k > Len(str) THEN -1
    ELSE IF str[k] = ch THEN k - 1
    ELSE IndexFrom(str, ch, k + 1)

Index(str, ch) == IndexFrom(str, ch, 1)

\* strings.SplitN(str, sep, n) for n > 0 and a separator of one character:
\* at most n substrings, the last of them the unsplit remainder
RECURSIVE SplitN(_, _, _)
SplitN(str, sep, n) ==
    LET k == Index(str, sep)
    IN  IF n = 1 \/ k = -1 THEN <<str>>
        ELSE <<SubSeq(str, 1, k)>>
             \o SplitN(SubSeq(str, k + 2, Len(str)), sep, n - 1)

\* strings.Split(str, sep): every substring between separators
Split(str, sep) == SplitN(str, sep, Len(str) + 1)

\* Unwrap(s, delim): the delimiters that wrap the string are removed
Unwrap(str, delim) ==
    IF Len(str) > 2 /\ str[1] = delim[1] /\ str[Len(str)] = delim[2]
    THEN SubSeq(str, 2, Len(str) - 1)
    ELSE str

\* m[key] = v on a Go map
Put(m, key, v) ==
    [x \in DOMAIN m \cup {key} |-> IF x = key THEN v ELSE m[x]]

\* NewSchema: the loop over cols, from index i (counted from 0) with j,
\* inParen and the Schema s as the iterations before left them
RECURSIVE Columns(_, _, _, _, _)
Columns(cols, i, j, inParen, s) ==
    IF i >= Len(cols) THEN s
    ELSE LET desc    == cols[i + 1]
             trimmed == TrimSpace(desc)
             parts   == SplitN(trimmed, " ", 3)
             nm      == parts[1]
             opened  == inParen \/ Index(nm, "(") # -1
         IN  IF opened
             THEN IF Index(nm, ")") # -1
                  THEN Columns(cols, i + 1, j, FALSE, s)
                  ELSE Columns(cols, i + 1, j + 1, TRUE, s)
             ELSE Columns(cols, i + 1, j, FALSE,
                     [Index |-> Put(s.Index, nm, i - j),
                      Type  |-> IF Len(parts) > 1
                                THEN [s.Type EXCEPT ![i + 1] =
                                         columnTypeFromString(parts[2])]
                                ELSE s.Type])

NewSchemaOf(params) ==
    LET cols == Split(Unwrap(params, <<"(", ")">>), ",")
    IN  Columns(cols, 0, 0, FALSE,
                [Index |-> <<>>, Type |-> [k \in 1..Len(cols) |-> CT_None]])

\* how many times ParameterValue is called on a cell
MaxCalls == 2

\* the column lists: at most MaxItems items, each a column or a directive
MaxItems == 4

\* the columns a table may have, in the order it has them
ColumnNames == << <<"_", "i", "d">>, <<"n", "a", "m", "e">>,
                 <<"d", "a", "t", "a">> >>

ColumnTypes == <<INTEGER, TEXT, BLOB>>

PrimaryKey == <<" ", "P", "R", "I", "M", "A", "R", "Y", " ", "K", "E", "Y">>

UNIQUE == <<"U", "N", "I", "Q", "U", "E">>

ItemKinds == {"column", "bare", "unique1", "unique2"}

\* the items of the given kinds: the k-th column is named ColumnNames[k]
RECURSIVE ItemsOf(_, _)
ItemsOf(kinds, k) ==
    IF kinds = <<>> THEN <<>>
    ELSE CASE Head(kinds) = "column" ->
                <<[kind |-> "column", name |-> ColumnNames[k],
                   type |-> ColumnTypes[k], key |-> k = 1]>>
                \o ItemsOf(Tail(kinds), k + 1)
           [] Head(kinds) = "bare" ->
                <<[kind |-> "column", name |-> ColumnNames[k],
                   type |-> <<>>, key |-> FALSE]>>
                \o ItemsOf(Tail(kinds), k + 1)
           [] Head(kinds) = "unique1" ->
                <<[kind |-> "directive", args |-> <<ColumnNames[1]>>]>>
                \o ItemsOf(Tail(kinds), k)
           [] Head(kinds) = "unique2" ->
                <<[kind |-> "directive",
                   args |-> <<ColumnNames[1], ColumnNames[2]>>]>>
                \o ItemsOf(Tail(kinds), k)

IsColumn(item) == item.kind = "column"

Tables ==
    { ItemsOf(kinds, 1) :
        kinds \in { ks \in UNION { [1..n -> ItemKinds] : n \in 0..MaxItems } :
                      Len(SelectSeq(ks, LAMBDA x : x \in {"column", "bare"}))
                          <= Len(ColumnNames) } }

RECURSIVE Join(_, _)
Join(strs, sep) ==
    IF strs = <<>> THEN <<>>
    ELSE IF Len(strs) = 1 THEN strs[1]
    ELSE strs[1] \o sep \o Join(Tail(strs), sep)

\* an item as the CREATE TABLE statement spells it
ItemText(item) ==
    IF IsColumn(item)
    THEN item.name
         \o (IF item.type # <<>> THEN <<" ">> \o item.type ELSE <<>>)
         \o (IF item.key THEN PrimaryKey ELSE <<>>)
    ELSE UNIQUE \o <<"(">> \o Join(item.args, <<",", " ">>) \o <<")">>

\* the parameters of the statement: the items in parentheses
StatementParams(items) ==
    <<"(">>
    \o Join([k \in DOMAIN items |-> ItemText(items[k])], <<",", " ">>)
    \o <<")">>

\* NewSchema(statement_params)
NewSchema ==
    /\ pc = "schema"
    /\ schema' = NewSchemaOf(statement_params)
    /\ pc' = "bound"
    /\ UNCHANGED <<w, analysis, binding, table, statement_params, command, session, runs, fileSize,
                   hdrIV, fns, shorts, pos, closed, Counter, IV, Mac, stream,
                   cpos, length, f, di, da, dlen, buf, sink, log, ret, result,
                   nFrames, nBlobs, caller, later>>

InitSchema ==
    \E items \in Tables :
        /\ table = items
        /\ statement_params = StatementParams(items)
        /\ schema = NoSchema
        /\ row = <<>>
        /\ call = NoArguments
        /\ pv = <<>>
        /\ ended = 0
        /\ warnings = 0
        /\ w = NoWriter
        /\ pc = "schema"
        /\ command = NoCommand
        /\ header = HeaderFile("absent", W(0), W(0), FALSE, FALSE, 0, <<>>,
                               <<>>)
        /\ password = <<>>
        /\ CipherKey = NoKey
        /\ MacKey = NoKey
        /\ runs = <<>>
        /\ fileSize = W(0)
        /\ hdrIV = <<>>
        /\ fns = Funcs("nil", "nil", "nil")
        /\ shorts = 0
        /\ pos = W(0)
        /\ closed = FALSE
        /\ Counter = W(0)
        /\ IV = <<>>
        /\ Mac = <<>>
        /\ stream = <<>>
        /\ cpos = W(0)
        /\ length = W(0)
        /\ f = EmptyFrame
        /\ di = 1
        /\ da = NoCall
        /\ dlen = W(0)
        /\ buf = <<>>
        /\ sink = <<>>
        /\ log = <<>>
        /\ ret = NoError
        /\ result = NoResult
        /\ nFrames = 0
        /\ nBlobs = 0
        /\ caller = "NewSchema"
        /\ later = 0

NextSchema == NewSchema

SpecSchema == InitSchema /\ [][NextSchema]_vars

----------------------------------------------------------------------------
(* Binding parameters: ParameterValue, Schema.RowValues and Schema.Field.   *)
(* A pointer is a sequence: empty for nil, else of the one value it points  *)
(* to; a []byte is likewise empty for nil, else of its one byte string.  A  *)
(* uint64 is four 16-bit limbs, most significant first; an int64 is a sign  *)
(* and the four limbs of its magnitude.                                     *)

\* 2^15: a uint64 whose first limb reaches it has its high bit set
HighBit == Base \div 2

\* ^u on uint64
Not64(u) == [k \in 1..4 |-> Base - 1 - u[k]]

\* u + 1 on uint64, wrapping
Inc64(u) ==
    IF u[4] < Base - 1 THEN <<u[1], u[2], u[3], u[4] + 1>>
    ELSE IF u[3] < Base - 1 THEN <<u[1], u[2], u[3] + 1, 0>>
    ELSE IF u[2] < Base - 1 THEN <<u[1], u[2] + 1, 0, 0>>
    ELSE IF u[1] < Base - 1 THEN <<u[1] + 1, 0, 0, 0>>
    ELSE <<0, 0, 0, 0>>

\* int64(u): the 64 bits of u read as two's complement
int64(u) ==
    IF u[1] < HighBit THEN [neg |-> FALSE, mag |-> u]
    ELSE [neg |-> TRUE, mag |-> Inc64(Not64(u))]

\* a pointer to the integer unchanged: the bits of u taken as its magnitude
unsigned(u) ==
    IF u = <<>> THEN <<>> ELSE <<[neg |-> FALSE, mag |-> u[1]]>>

signed(u) ==
    IF u = <<>> THEN <<>> ELSE <<int64(u[1])>>

\* an interface{} value: its dynamic type and the value of that type
Value(type, val) == [type |-> type, val |-> val]

\* the nil interface{}
Nil == Value("nil", <<>>)

\* a SqlStatement_SqlParameter
Parameter(str, int, dbl, blob) ==
    [StringParameter |-> str, IntegerParameter |-> int,
     DoubleParameter |-> dbl, BlobParameter |-> blob]

\* the affinity decides before the fields of the cell are looked at
ParameterValueByAffinity(p, typ) ==
    CASE typ = CT_Text    -> Value("*string", p.StringParameter)
      [] typ = CT_Integer -> Value("*int64", signed(p.IntegerParameter))
      [] typ = CT_Real    -> Value("*float64", p.DoubleParameter)
      [] typ = CT_Blob    -> Value("[]byte", p.BlobParameter)
      [] OTHER            -> Nil

ParameterValueOf(p, typ) ==
    IF p.StringParameter # <<>> THEN Value("*string", p.StringParameter)
    ELSE IF p.IntegerParameter # <<>>
    THEN Value("*int64", signed(p.IntegerParameter))
    ELSE IF p.DoubleParameter # <<>> THEN Value("*float64", p.DoubleParameter)
    ELSE IF p.BlobParameter # <<>> THEN Value("[]byte", p.BlobParameter)
    ELSE CASE typ = CT_Text    -> Value("*string", p.StringParameter)
           [] typ = CT_Integer -> Value("*int64", signed(p.IntegerParameter))
           [] typ = CT_Real    -> Value("*float64", p.DoubleParameter)
           [] typ = CT_Blob    -> Value("[]byte", p.BlobParameter)
           [] OTHER            -> Nil

\* a call that panicked instead of returning
Panicked(msg) == <<Value("panic", msg)>>

\* a run-time panic of an index expression
IndexOutOfRange == Panicked("index out of range")

\* the values of the populated cells only
RowValuesPopulated(s, r) ==
    LET set == SelectSeq(r, LAMBDA p : ParameterValueOf(p, CT_None) # Nil)
    IN  [i \in 1..Len(set) |-> ParameterValueOf(set[i], CT_None)]

\* Schema.RowValues(row): pv[i] = ParameterValue(v, s.Type[i])
RowValuesOf(s, r) ==
    IF Len(r) > Len(s.Type) THEN IndexOutOfRange
    ELSE [i \in 1..Len(r) |-> ParameterValueOf(r[i], s.Type[i])]

FieldNotFound == Panicked("Field not found")

\* Schema.Field(row, column)
FieldOf(s, r, column) ==
    LET ok == column \in DOMAIN s.Index
        i  == IF ok THEN s.Index[column] ELSE 0
    IN  IF i >= Len(s.Type) THEN IndexOutOfRange
        ELSE IF ~ok THEN FieldNotFound
        ELSE IF i >= Len(r) THEN IndexOutOfRange
        ELSE <<ParameterValueOf(r[i + 1], s.Type[i + 1])>>

\* the cell after a call that returned its first populated field and
\* cleared it
CellTaken(p) ==
    IF p.StringParameter # <<>> THEN [p EXCEPT !.StringParameter = <<>>]
    ELSE IF p.IntegerParameter # <<>>
    THEN [p EXCEPT !.IntegerParameter = <<>>]
    ELSE IF p.DoubleParameter # <<>> THEN [p EXCEPT !.DoubleParameter = <<>>]
    ELSE [p EXCEPT !.BlobParameter = <<>>]

\* the cell after ParameterValue(p, typ): no field of p is assigned
CellAfter(p) == p

\* the uint64 values of integer cells
Limbs == {0, 1, HighBit - 1, HighBit, Base - 1}

Uint64s == { <<a, b, c, d>> : a \in Limbs, b \in Limbs, c \in Limbs,
                              d \in Limbs }

\* the values a field of a cell may hold
Strings == { <<>>, <<"x">> }

Doubles == { "1.5" }

Blobs == { <<>>, <<1, 2>> }

\* the cells of rows: unpopulated, one field populated, several populated
RowCells ==
    { Parameter(<<>>, <<>>, <<>>, <<>>),
      Parameter(<< <<"x">> >>, <<>>, <<>>, <<>>),
      Parameter(<<>>, << <<Base - 1, Base - 1, Base - 1, Base - 1>> >>,
                <<>>, <<>>),
      Parameter(<<>>, <<>>, << "1.5" >>, <<>>),
      Parameter(<<>>, <<>>, <<>>, << <<1, 2>> >>),
      Parameter(<<>>, << <<0, 0, 0, 1>> >>, <<>>, << <<>> >>) }

\* the cells ParameterValue is called on: every population of the fields,
\* and every integer
Pointers(vals) == {<<>>} \cup { <<v>> : v \in vals }

Cells ==
    { Parameter(str, int, dbl, blob) :
        str \in Pointers(Strings), int \in Pointers({<<0, 0, 0, 1>>}),
        dbl \in Pointers(Doubles), blob \in Pointers(Blobs) }
    \cup { Parameter(<<>>, <<u>>, <<>>, <<>>) : u \in Uint64s }

Affinities == {CT_None, CT_Text, CT_Integer, CT_Real, CT_Blob}

\* the tables whose statements are bound: at most MaxBindItems items
MaxBindItems == 3

BindTables == { t \in Tables : Len(t) <= MaxBindItems }

\* the state of the variables that binding does not touch
NoBackupFile ==
    /\ command = NoCommand
    /\ header = HeaderFile("absent", W(0), W(0), FALSE, FALSE, 0, <<>>, <<>>)
    /\ password = <<>>
    /\ CipherKey = NoKey
    /\ MacKey = NoKey
    /\ runs = <<>>
    /\ fileSize = W(0)
    /\ hdrIV = <<>>
    /\ fns = Funcs("nil", "nil", "nil")
    /\ shorts = 0
    /\ pos = W(0)
    /\ closed = FALSE
    /\ Counter = W(0)
    /\ IV = <<>>
    /\ Mac = <<>>
    /\ stream = <<>>
    /\ cpos = W(0)
    /\ length = W(0)
    /\ f = EmptyFrame
    /\ di = 1
    /\ da = NoCall
    /\ dlen = W(0)
    /\ buf = <<>>
    /\ sink = <<>>
    /\ log = <<>>
    /\ ret = NoError
    /\ result = NoResult
    /\ nFrames = 0
    /\ nBlobs = 0
    /\ later = 0

Rows(n) == UNION { [1..k -> RowCells] : k \in 0..n }

\* sch.RowValues(s.Parameters)
RowValues ==
    /\ pc = "bind"
    /\ call' = [call EXCEPT !.fn = "RowValues"]
    /\ pv' = RowValuesOf(schema, row)
    /\ pc' = "values"
    /\ UNCHANGED <<w, analysis, row, binder, command, session, runs, fileSize, hdrIV,
                   fns, shorts, pos, closed, Counter, IV, Mac, stream, cpos,
                   length, f, di, da, dlen, buf, sink, log, ret, result,
                   nFrames, nBlobs, caller, later>>

\* sch.Field(ps, column) for a column of the table
Field ==
    /\ pc = "bind"
    /\ \E k \in DOMAIN ColumnNames :
          /\ call' = [call EXCEPT !.fn = "Field", !.column = ColumnNames[k]]
          /\ pv' = FieldOf(schema, row, ColumnNames[k])
    /\ pc' = "field"
    /\ UNCHANGED <<w, analysis, row, binder, command, session, runs, fileSize, hdrIV,
                   fns, shorts, pos, closed, Counter, IV, Mac, stream, cpos,
                   length, f, di, da, dlen, buf, sink, log, ret, result,
                   nFrames, nBlobs, caller, later>>

\* a statement of a table whose schema exists, with at most as many
\* parameters as the table has columns
InitBind ==
    \E items \in BindTables :
        \E r \in Rows(Len(SelectSeq(items, IsColumn))) :
            /\ table = items
            /\ statement_params = StatementParams(items)
            /\ schema = NewSchemaOf(StatementParams(items))
            /\ row = r
            /\ call = NoArguments
            /\ pv = <<>>
            /\ ended = 0
            /\ warnings = 0
            /\ w = NoWriter
            /\ pc = "bind"
            /\ caller = "ExtractFiles"
            /\ NoBackupFile

NextBind ==
    \/ RowValues
    \/ Field

SpecBind == InitBind /\ [][NextBind]_vars

\* ParameterValue(p, typ) on the one cell of row: the first call and the
\* calls after it
ParameterValue ==
    /\ pc = "cell"
    /\ Len(pv) < MaxCalls
    /\ pv' = Append(pv, ParameterValueOf(row[1], call.typ))
    /\ row' = <<CellAfter(row[1])>>
    /\ UNCHANGED <<w, analysis, pc, call, binder, command, session, runs, fileSize, hdrIV,
                   fns, shorts, pos, closed, Counter, IV, Mac, stream, cpos,
                   length, f, di, da, dlen, buf, sink, log, ret, result,
                   nFrames, nBlobs, caller, later>>

InitValue ==
    \E p \in Cells, typ \in Affinities :
        /\ table = <<>>
        /\ statement_params = <<>>
        /\ schema = NoSchema
        /\ row = <<p>>
        /\ call = [fn |-> "ParameterValue", column |-> <<>>, typ |-> typ]
        /\ pv = <<>>
        /\ ended = 0
        /\ warnings = 0
        /\ w = NoWriter
        /\ pc = "cell"
        /\ caller = "RowValues"
        /\ NoBackupFile

NextValue == ParameterValue

SpecValue == InitValue /\ [][NextValue]_vars

----------------------------------------------------------------------------
(* MultiWriter: consecutive writes that stop at the first error.  w.Writer  *)
(* is the underlying writer, kept as the writes it received, each with the  *)
(* error it returned; w.calls counts the W calls and w.reported holds what  *)
(* the Error calls returned.                                                *)

\* how many calls are made on a MultiWriter
MaxWriterCalls == 4

\* the errors of the underlying writer
ErrShortWrite == "short write"

ErrDiskFull == "no space left on device"

WriteErrors == {NoError, ErrShortWrite, ErrDiskFull}

\* the byte slices written
Slices == { <<1>>, <<2, 3>> }

\* W that writes whatever happened before
MultiWriterWUnlatched(mw, p, err) ==
    [mw EXCEPT !.Writer = Append(@, [p |-> p, err |-> err]),
               !.err = err,
               !.calls = @ + 1]

\* w.W(p), the underlying Write returning err if it is called
MultiWriterW(mw, p, err) ==
    IF mw.err # NoError
    THEN [mw EXCEPT !.calls = @ + 1]
    ELSE [mw EXCEPT !.Writer = Append(@, [p |-> p, err |-> err]),
                    !.err = err,
                    !.calls = @ + 1]

\* w.Error()
MultiWriterError(mw) == mw.err

\* NewMultiWriter(w)
NewMultiWriter == [Writer |-> <<>>, err |-> NoError, calls |-> 0,
                   reported |-> <<>>]

\* a call of w.W(p)
WCall ==
    /\ pc = "writer"
    /\ w.calls + Len(w.reported) < MaxWriterCalls
    /\ \E p \in Slices, err \in WriteErrors : w' = MultiWriterW(w, p, err)
    /\ UNCHANGED <<pc, analysis, binding, binder, command, session, runs,
                   fileSize, hdrIV, fns, shorts, pos, closed, Counter, IV,
                   Mac, stream, cpos, length, f, di, da, dlen, buf, sink,
                   log, ret, result, nFrames, nBlobs, caller, later>>

\* a call of w.Error()
ErrorCall ==
    /\ pc = "writer"
    /\ w.calls + Len(w.reported) < MaxWriterCalls
    /\ w' = [w EXCEPT !.reported = Append(@, MultiWriterError(w))]
    /\ UNCHANGED <<pc, analysis, binding, binder, command, session, runs,
                   fileSize, hdrIV, fns, shorts, pos, closed, Counter, IV,
                   Mac, stream, cpos, length, f, di, da, dlen, buf, sink,
                   log, ret, result, nFrames, nBlobs, caller, later>>

InitWriter ==
    /\ w = NewMultiWriter
    /\ pc = "writer"
    /\ caller = "Synctech"
    /\ table = <<>>
    /\ statement_params = <<>>
    /\ schema = NoSchema
    /\ row = <<>>
    /\ call = NoArguments
    /\ pv = <<>>
    /\ ended = 0
    /\ warnings = 0
    /\ NoBackupFile

NextWriter ==
    \/ WCall
    \/ ErrorCall

SpecWriter == InitWriter /\ [][NextWriter]_vars

----------------------------------------------------------------------------
(* Properties *)

\* the uint32 whose big-endian encoding is b[1..4]
BigEndianValue(b) == <<b[1] * 256 + b[2], b[3] * 256 + b[4]>>

\* the big-endian encoding of the uint32 c
BigEndianBytes(c) == <<c[1] \div 256, c[1] % 256, c[2] \div 256, c[2] % 256>>

\* C1: when Consume returns nil, bf.Counter equals the initial counter (the
\* big-endian value of the top four bytes of the header IV) plus the number
\* of frames Frame returned plus the number of DecryptAttachment calls, the
\* sum taken in the counter's uint32 arithmetic.
C1_CounterAdvance ==
    (pc = "done" /\ result.err = NoError) =>
        Counter = U32Add(BigEndianValue(hdrIV), W(nFrames + nBlobs))

\* a run that ended well after two frames and a blob, its counter having
\* wrapped past 2^32 - 1
C1_Witness ==
    /\ pc = "done"
    /\ result.err = NoError
    /\ nFrames = 2
    /\ nBlobs = 1
    /\ hdrIV[1] = 255
    /\ Counter = W(2)

\* iv carries the counter c in its top four bytes and the header's low twelve
CarriesCounter(iv, c) ==
    /\ SubSeq(iv, 1, 4) = BigEndianBytes(c)
    /\ SubSeq(iv, 5, 16) = SubSeq(hdrIV, 5, 16)

\* C2: whenever Frame or DecryptAttachment builds its AES-CTR stream, the IV
\* of the stream carries, big-endian in its top four bytes, the counter held
\* when the call began, and the header IV's low twelve bytes; the call leaves
\* Counter one greater (in uint32) than it found it.
C2_StreamIV ==
    [][ /\ (pc = "frame" /\ pc' = "framefunc") =>
              /\ CarriesCounter(stream'[1].iv, Counter)
              /\ stream'[1].iv = IV'
              /\ Counter' = U32Add(Counter, W(1))
        /\ (pc = "decrypt" /\ pc' = "read") =>
              /\ CarriesCounter(stream'[1].iv, Counter)
              /\ stream'[1].iv = IV'
              /\ Counter' = U32Add(Counter, W(1))
        /\ pc = "read" =>
              /\ Counter' = Counter
              /\ IV' = IV
              /\ CarriesCounter(stream[1].iv, da.ctr0)
              /\ Counter = U32Add(da.ctr0, W(1))
      ]_vars

\* DecryptAttachment has built its stream for the blob of the first frame,
\* whose own stream had the header IV unchanged; the carry of the increment
\* went from the low half of the counter into the high half
C2_Witness ==
    /\ pc = "read"
    /\ nFrames = 1
    /\ hdrIV[3] = 255
    /\ hdrIV[1] = 1
    /\ stream[1].iv = <<1, 3, 0, 0>> \o SubSeq(hdrIV, 5, 16)
    /\ Counter = <<259, 1>>

\* the frame whose length prefix is at p ends in the tag of its own body
FrameTagHolds(p) ==
    \E i \in DOMAIN runs :
        /\ runs[i].kind = "len"
        /\ runs[i].off = p
        /\ i + 2 \in DOMAIN runs
        /\ runs[i + 2].kind = "tag"
        /\ WLe(WAdd(runs[i + 2].off, W(MacSize)), fileSize)
        /\ runs[i + 2].d = IF runs[i + 1].n = W(0) THEN <<>>
                           ELSE <<FilePiece(runs[i + 1].off, runs[i + 1].n)>>

\* C3: when the last ten bytes of the frame read are not the first ten bytes
\* of the HMAC of the bytes before them, Frame returns the integrity error
\* and Consume ends with it: no frame is counted as returned, no consumer is
\* invoked, Counter and IV are what they were.  (Frames of fewer than ten
\* bytes have no tag to compare: they are left out.)
C3_MacMismatch ==
    [][ (/\ pc = "frame"
         /\ WLe(W(LengthSize), Avail(pos))
         /\ ~FrameTagHolds(pos)
         /\ result'.err # Panic) =>
            /\ result' = [tag |-> "", err |-> ErrWrongPassword]
            /\ pc' = "done"
            /\ Counter' = Counter
            /\ IV' = IV
            /\ log' = log
            /\ nFrames' = nFrames
      ]_vars

\* Frame refused the second frame of a file, after the first was dispatched
C3_Witness ==
    /\ result = [tag |-> "", err |-> ErrWrongPassword]
    /\ nFrames = 1
    /\ Len(log) = 2
    /\ Counter = U32Add(BigEndianValue(hdrIV), W(1))

\* C4: for every declared blob length N of 32 bits, DecryptAttachment(N, nil)
\* moves the file position forward by exactly N + 10, the sum taken without
\* wrapping at 2^32, and leaves Counter greater by one.
C4_SkipAdvance ==
    [][ (pc = "decrypt" /\ da.out = "nil") =>
            /\ pos' = WAdd(pos, WAdd(da.length, W(MacSize)))
            /\ Counter' = U32Add(Counter, W(1))
      ]_vars

\* the body runs of the file, in file order
Bodies == SelectSeq(runs, LAMBDA r : r.kind = "body")

\* the frames a producer serialized into the file, in file order
FramesOf == [i \in DOMAIN Bodies |-> Bodies[i].frame]

\* the file is what a producer writes for its frames: every blob whole,
\* every tag computed over what it is meant to cover
WellFormed ==
    /\ runs = Produce(FramesOf, hdrIV, "none", 0, FALSE)
    /\ fileSize = EndOf(runs, W(0))

\* what FrameFunc is to be handed for the file: each frame with the offset
\* of its length prefix and the length that prefix holds
ExpectedFrames ==
    [i \in DOMAIN Bodies |->
        [fn |-> "frame", f |-> Bodies[i].frame,
         pos |-> WSub(Bodies[i].off, W(LengthSize)),
         length |-> WAdd(Bodies[i].n, W(MacSize))]]

\* the counter after every frame and every blob of the file
ExpectedCounter ==
    U32Add(BigEndianValue(hdrIV),
           W(Len(Bodies)
             + Cardinality({i \in DOMAIN Bodies : HasBlob(Bodies[i].frame)})))

\* the invocations of FrameFunc so far
FrameEvents == SelectSeq(log, LAMBDA e : e.fn = "frame")

\* C5: for a well-formed file, Consume hands FrameFunc the same sequence of
\* (frame, offset, length) and ends with the same Counter whether the blob
\* consumers are unset (the blobs are skipped) or stream the blobs to a
\* sink: in both cases every frame of the file in file order, and a counter
\* advanced once for every frame and every blob (no consumer failing for a
\* reason of its own).
C5_SkipEqualsSink ==
    (WellFormed /\ pc = "done" /\ ret \notin {ErrConsumer, Panic}) =>
        /\ fns.FrameFunc # "nil" => FrameEvents = ExpectedFrames
        /\ Counter = ExpectedCounter

\* the bytes of the first k writes the sink received
RECURSIVE Written(_)
Written(k) == IF k = 0 THEN <<>> ELSE Cat(Written(k - 1), sink[k].data)

\* the writes the sink received are the n bytes of the file from offset p,
\* in order, each decrypted with the key stream of the call at its own
\* offset in the blob, no write longer than the chunk buffer
SinkHolds(p, n, ctr) ==
    /\ Written(Len(sink)) = Cat(<<>>, <<FilePiece(p, n)>>)
    /\ \A k \in DOMAIN sink :
          /\ WLe(PLen(sink[k].data), W(ATTACHMENT_BUFFER_SIZE))
          /\ sink[k].iv = uint32ToBytes(hdrIV, ctr)
          /\ sink[k].off = PLen(Written(k - 1))

\* C6: whenever DecryptAttachment(N, sink) returns nil, the sink has
\* received exactly the N bytes of the blob, decrypted, in file order, in
\* writes of at most 8192 bytes, and the file position is N + 10 past where
\* the call found it, however short the reads of the file came back.
C6_SinkExact ==
    [][ (pc = "read" /\ dlen = W(0) /\ pc' = "dispatch") =>
            /\ SinkHolds(da.pos0, da.length, da.ctr0)
            /\ pos' = WAdd(da.pos0, WAdd(da.length, W(MacSize)))
      ]_vars

\* C7: the MAC that DecryptAttachment compares with the ten bytes after the
\* blob was fed exactly the 16 bytes of the IV carrying the call's counter
\* and then exactly the N bytes of the blob, and a mismatch ends the call
\* with the integrity error; the MAC of a frame was fed the frame body
\* alone.
C7_BlobMacInput ==
    [][ /\ (pc = "read" /\ dlen = W(0)) =>
              /\ Mac = Cat(<<IVPiece(uint32ToBytes(hdrIV, da.ctr0))>>,
                           <<FilePiece(da.pos0, da.length)>>)
              /\ pc' = "done" => result'.err = ErrWrongPassword
        /\ (pc = "frame" /\ pc' = "framefunc") =>
              Mac' = Cat(<<>>, <<FilePiece(WAdd(pos, W(LengthSize)),
                                           WSub(length', W(MacSize)))>>)
      ]_vars

\* the ten bytes at offset p are a tag of the file, computed over the 16
\* bytes of the IV that carries counter ctr and over nothing else
TagOverIVAlone(p, ctr) ==
    \E i \in DOMAIN runs :
        /\ runs[i].kind = "tag"
        /\ runs[i].off = p
        /\ WLe(WAdd(p, W(MacSize)), fileSize)
        /\ runs[i].d = <<IVPiece(BigEndianBytes(ctr) \o SubSeq(hdrIV, 5, 16))>>

\* C8: DecryptAttachment(0, sink) writes nothing to the sink, reads the ten
\* bytes of the tag (as many of them as the file holds), leaves Counter
\* greater by one, and returns nil exactly when those ten bytes are the tag
\* of the IV alone; otherwise it returns the integrity error.
C8_EmptyBlob ==
    [][ /\ (pc = "decrypt" /\ da.out = "sink" /\ da.length = W(0)) =>
              /\ Counter' = U32Add(Counter, W(1))
              /\ sink' = <<>>
              /\ pos' = pos
              /\ pc' = "read"
        /\ (pc = "read" /\ da.length = W(0)) =>
              /\ sink = <<>> /\ sink' = <<>>
              /\ pos = da.pos0
              /\ pos' = WAdd(pos, WMin(W(MacSize), Avail(pos)))
              /\ Counter = U32Add(da.ctr0, W(1))
              /\ Counter' = Counter
              /\ pc' = "dispatch" <=> TagOverIVAlone(da.pos0, da.ctr0)
              /\ pc' # "dispatch" =>
                    /\ pc' = "done"
                    /\ result'.err = ErrWrongPassword
      ]_vars

\* DecryptAttachment(0, sink) has just returned nil for the empty blob of
\* the first frame
C8_Witness ==
    /\ pc = "dispatch"
    /\ da.out = "sink"
    /\ da.length = W(0)
    /\ nBlobs = 1
    /\ sink = <<>>
    /\ pos = WAdd(da.pos0, W(MacSize))
    /\ Counter = U32Add(da.ctr0, W(1))
    /\ TagOverIVAlone(da.pos0, da.ctr0)

\* C9: FrameFunc is handed the frames in file order: its k-th invocation is
\* for the k-th frame of the file, with the offset of that frame's length
\* prefix, so the offsets strictly increase; and when FrameFunc is set,
\* every invocation of a tag-specific consumer comes after the invocation
\* of FrameFunc for the same frame, with no other frame in between.
C9_FileOrder ==
    /\ Len(FrameEvents) <= Len(ExpectedFrames)
    /\ \A k \in DOMAIN FrameEvents :
          /\ FrameEvents[k].pos = ExpectedFrames[k].pos
          /\ FrameEvents[k].length = ExpectedFrames[k].length
          /\ \E r \in DOMAIN runs :
                /\ runs[r].kind = "len"
                /\ runs[r].off = FrameEvents[k].pos
                /\ runs[r].v = FrameEvents[k].length
    /\ \A j, k \in DOMAIN FrameEvents :
          j < k => WLt(FrameEvents[j].pos, FrameEvents[k].pos)
    /\ fns.FrameFunc # "nil" =>
          \A j \in DOMAIN log :
              log[j].fn # "frame" =>
                  \E i \in 1..(j - 1) :
                      /\ log[i].fn = "frame"
                      /\ log[i].pos = log[j].pos
                      /\ log[i].f = log[j].f
                      /\ \A k \in (i + 1)..j : log[k].fn # "frame"

\* FrameFunc and then the statement consumer were invoked for the second
\* frame of a file, after FrameFunc and the attachment consumer for the
\* first
C9_Witness ==
    /\ Len(log) = 4
    /\ log[1].fn = "frame" /\ log[2].fn = "attachment"
    /\ log[3].fn = "frame" /\ log[4].fn = "statement"
    /\ WLt(log[1].pos, log[3].pos)
    /\ log[4].pos = log[3].pos

\* the names of the tag-specific consumers invoked for the frame read at
\* offset p, in the order of their invocation
InvokedFor(p) ==
    LET evs == SelectSeq(log, LAMBDA e : e.fn # "frame" /\ e.pos = p)
    IN  [k \in DOMAIN evs |-> evs[k].fn]

\* the consumers that are set (an unset blob consumer is set to the one that
\* skips the blob) and whose field frame fr carries, in the order Consume
\* tries them
Matching(fr) ==
    SelectSeq(Consumers,
              LAMBDA c : c \in fr.has /\ (c \in BlobVariants
                                            \/ FnOf(fns, c) # "nil"))

\* a blob consumer runs, or DecryptAttachment does, only for a frame that
\* carries that consumer's field
BlobOnlyForBlobFrame ==
    /\ pc \in {"decrypt", "read"} => da.fn \in (f.has \cap BlobVariants)
    /\ \A j \in DOMAIN log :
          log[j].fn \in BlobVariants => log[j].fn \in log[j].f.has

\* C10 as stated: once Consume is through with a frame, exactly one
\* tag-specific consumer was invoked for it, the one of the field the frame
\* carries; and a frame without blob field never set off a blob consumer or
\* DecryptAttachment.
C10_ExactlyOne ==
    /\ (pc = "seek" /\ nFrames > 0) =>
          /\ Len(InvokedFor(cpos)) = 1
          /\ InvokedFor(cpos)[1] \in f.has
    /\ BlobOnlyForBlobFrame

\* C10, amended: once Consume is through with a frame, the tag-specific
\* consumers invoked for it are exactly those that are set and whose field
\* the frame carries, each once, in the order Attachment, Avatar, Sticker,
\* Preference, KeyValue, Statement: none for a Version, End or empty frame
\* or for a field whose consumer is unset, one for each field of a frame
\* that carries several; and a frame without blob field never set off a
\* blob consumer or DecryptAttachment.
C10_EveryMatching ==
    /\ (pc = "seek" /\ nFrames > 0) => InvokedFor(cpos) = Matching(f)
    /\ BlobOnlyForBlobFrame

\* Consume is through with a frame that carries an attachment and a
\* statement: both consumers were invoked, the blob was streamed to the sink
C10_Witness ==
    /\ pc = "seek"
    /\ nFrames = 1
    /\ f.has = {"attachment", "statement"}
    /\ fns.AttachmentFunc = "sink"
    /\ InvokedFor(cpos) = <<"attachment", "statement">>
    /\ nBlobs = 1

\* a consumer returns at this step: one of the caller's when it is invoked,
\* a blob consumer when its DecryptAttachment call returns
ConsumerReturns ==
    /\ pc \in {"framefunc", "dispatch", "decrypt", "read"}
    /\ ret' # Pending
    /\ Len(log') > Len(log) \/ pc' \notin {"decrypt", "read"}
    /\ Len(log') > 0

\* C11: when a consumer returns an error, Consume returns at once with that
\* error wrapped in "consume [kind]", kind naming the consumer that failed;
\* and once Consume has returned no consumer is invoked and no frame read.
C11_ConsumerError ==
    [][ /\ (ConsumerReturns /\ ret' \notin {NoError, Panic}) =>
              /\ pc' = "done"
              /\ result' = [tag |-> "consume ["
                                    \o log'[Len(log')].fn \o "]",
                            err |-> ret']
              /\ log'[Len(log')].fn \in {"frame"} \cup
                                         {Consumers[j] : j \in 1..6}
        /\ pc = "done" =>
              /\ log' = log
              /\ pos' = pos
              /\ nFrames' = nFrames
              /\ nBlobs' = nBlobs
      ]_vars

\* the statement consumer failed on the first frame of a file of two:
\* FrameFunc and it were invoked once each, the second frame was never read
C11_Witness ==
    /\ pc = "done"
    /\ result = [tag |-> "consume [statement]", err |-> ErrConsumer]
    /\ Len(Bodies) = 2
    /\ nFrames = 1
    /\ Len(log) = 2
    /\ WLt(pos, fileSize)

\* C12: whenever control has left Consume (after a clean end of file, an
\* error of Frame, a failed seek, an error or a panic of a consumer), Close
\* has been called on the file.
C12_ClosedOnExit ==
    [][ (caller = "Consume" /\ pc # "done" /\ pc' = "done") => closed' ]_vars

\* Consume was unwound by the panic of a consumer; the file is closed
C12_Witness ==
    /\ pc = "done"
    /\ later = 0
    /\ ret = Panic
    /\ result.err = Panic
    /\ closed

\* C13: after Consume has returned, every call of Frame, DecryptAttachment
\* or Consume on the BackupFile returns an error, yields no frame and
\* invokes no consumer.
C13_Spent ==
    [][ later' > 0 =>
          /\ log' = log
          /\ nFrames' = nFrames
          /\ (pc # "done" /\ pc' = "done") => result'.err # NoError
          /\ pc' \notin {"framefunc", "dispatch"}
      ]_vars

\* a DecryptAttachment(0, sink) on the spent file has returned the
\* integrity error
C13_Witness ==
    /\ pc = "done"
    /\ later = 1
    /\ caller = "DecryptAttachment"
    /\ da.out = "sink"
    /\ da.length = W(0)
    /\ result.err = ErrWrongPassword

\* the file holds a whole length prefix at offset p, written by the
\* producer, but ends before the bytes that prefix announces
TruncatedFrameAt(p) ==
    /\ ~closed
    /\ WLe(WAdd(p, W(LengthSize)), fileSize)
    /\ \E i \in DOMAIN runs :
          /\ runs[i].kind = "len"
          /\ runs[i].off = p
          /\ WLt(fileSize, WAdd(WAdd(p, W(LengthSize)), runs[i].v))

\* C14: when the file ends after a whole length prefix L but before L more
\* bytes, Frame fails with a truncation error: it computes and compares no
\* MAC over the partly filled buffer, and the error is not the integrity
\* (wrong password) error.
C14_Truncated ==
    [][ (pc = "frame" /\ TruncatedFrameAt(pos)) =>
            /\ pc' = "done"
            /\ result'.err \notin {NoError, ErrWrongPassword}
            /\ Mac' = Mac
      ]_vars

\* C15: where Consume expects a length prefix, a file that holds no further
\* byte makes it return nil, and a file that holds one to three further
\* bytes makes it return an error; in both cases no consumer is invoked any
\* more.
C15_EndOfFile ==
    [][ (pc = "frame" /\ caller = "Consume" /\ ~closed) =>
            /\ ~WLt(pos, fileSize) =>
                  /\ pc' = "done"
                  /\ result' = [tag |-> "", err |-> NoError]
                  /\ log' = log
            /\ (WLt(pos, fileSize)
                 /\ WLt(fileSize, WAdd(pos, W(LengthSize)))) =>
                  /\ pc' = "done"
                  /\ result'.err \notin {NoError, Panic}
                  /\ log' = log
      ]_vars

\* Consume returned an error at a file that ends two bytes into the length
\* prefix of its second frame, after the first frame was dispatched
C15_Witness ==
    /\ pc = "done"
    /\ result.err = ErrUnexpectedEOF
    /\ nFrames = 1
    /\ pos = fileSize
    /\ Len(Bodies) = 2

\* the first frame of the file is there, decodes to a frame with a Header
\* of version 0 and an IV of 16 bytes
ValidHeader ==
    /\ header.file = "present"
    /\ WLe(WAdd(W(LengthSize), header.headerLength), header.size)
    /\ header.decodes
    /\ header.isHeader
    /\ header.version = 0
    /\ Len(header.iv) = 16

\* C16: NewBackupFile returns an error, and neither a session nor a panic,
\* whenever the first frame is missing, does not decode, decodes to a frame
\* without Header, has a version other than 0 or an IV of other than 16
\* bytes; a valid header, and only that, gives a session.
C16_HeaderErrors ==
    pc # "new" =>
        IF ValidHeader
        THEN pc = "start" /\ IV = header.iv /\ CipherKey # NoKey
        ELSE /\ pc = "failed"
             /\ result.err \notin {NoError, Panic, NoResult.err}
             /\ CipherKey = NoKey

\* a passphrase with the white space at its ends trimmed and every space
\* inside deleted: the characters other than the space between its first
\* and its last character that is no white space
NormalForm(str) ==
    LET solid == {i \in DOMAIN str : str[i] \notin Whitespace}
        first == CHOOSE i \in solid : \A j \in solid : i <= j
        last  == CHOOSE i \in solid : \A j \in solid : j <= i
    IN  IF solid = {} THEN <<>>
        ELSE SelectSeq(SubSeq(str, first, last), LAMBDA c : c # " ")

\* the keys a session gets for passphrase pass and the salt of the header
KeysFor(pass) ==
    LET derived == deriveSecrets(backupKey(pass, header.salt),
                                 "Backup Export")
    IN  <<cipherKey(derived), macKey(derived)>>

\* C19: the keys of a session depend on the passphrase through its normal
\* form only: every passphrase with the normal form of the one given
\* yields, for the same salt, the cipher key and the MAC key of the session;
\* and normalising a normal form changes nothing.
C19_KeyNormalisation ==
    pc = "start" =>
        /\ \A q \in Passwords :
              NormalForm(q) = NormalForm(password) =>
                  KeysFor(q) = <<CipherKey, MacKey>>
        /\ NormalForm(NormalForm(password)) = NormalForm(password)
        /\ KeysFor(NormalForm(password)) = <<CipherKey, MacKey>>
        /\ backupKey(password, header.salt).input = NormalForm(password)

\* a session opened with a passphrase that has a space inside holds the
\* keys of the passphrase without it
C19_Witness ==
    /\ pc = "start"
    /\ password = <<"a", " ", "b">>
    /\ <<CipherKey, MacKey>> = KeysFor(<<"a", "b">>)
    /\ CipherKey # MacKey

\* the frame whose length prefix is at p has a body that is no encoding of
\* a frame
UndecodableAt(p) ==
    \E i \in DOMAIN runs :
        /\ runs[i].kind = "len"
        /\ runs[i].off = p
        /\ runs[i + 1].v # W(0)

\* C17: a frame whose tag verifies but whose plain text does not decode
\* makes Frame, and with it Consume, return a decode error: the frame is
\* not counted as returned and goes to no consumer.
C17_DecodeFailure ==
    [][ (pc = "frame" /\ FrameTagHolds(pos) /\ UndecodableAt(pos)) =>
            /\ pc' = "done"
            /\ result'.err \notin {NoError, ErrWrongPassword, Panic}
            /\ nFrames' = nFrames
      ]_vars

\* C18: a panic raised inside a consumer while ExtractFiles or AnalyseFile
\* is dispatching is reported as a failed run: once the command has
\* returned, what it returned is not nil and the process does not exit
\* with 0.
C18_PanicReported ==
    (command.returned # Running /\ ret = Panic) =>
        (command.returned # NoError /\ command.exit # 0)

\* the columns of the table, in the order the statement lists them
RealColumns == SelectSeq(table, IsColumn)

\* C20: NewSchema maps each real column name to the number of real columns
\* that precede it, wherever directives in parentheses appear in the list:
\* Index has an entry for the real columns and for nothing else, and the
\* entry of the k-th real column is k - 1.
C20_IndexExact ==
    pc = "bound" =>
        /\ DOMAIN schema.Index =
               { RealColumns[k].name : k \in DOMAIN RealColumns }
        /\ \A k \in DOMAIN RealColumns :
               schema.Index[RealColumns[k].name] = k - 1

\* C21: the number of entries of the column list of a schema built by
\* NewSchema, in the Type slice and in the Index map alike, equals the
\* number of top-level fragments of the column list that are not inside a
\* nested group of parentheses: the number of columns, or, counting a
\* directive as a fragment of its own, the number of items.
C21_ColumnCount ==
    pc = "bound" =>
        \E n \in {Len(RealColumns), Len(table)} :
            /\ Len(schema.Type) = n
            /\ Cardinality(DOMAIN schema.Index) = n

\* the call returned values, it did not panic
Returned == \A i \in DOMAIN pv : pv[i].type # "panic"

\* C22: for a statement of a table that has a schema, with at most as many
\* parameters as the table has columns, RowValues returns exactly
\* len(params) entries, entry i being the binding of params[i]: the value
\* ParameterValue gives for that cell.
C22_RowValues ==
    pc = "values" =>
        /\ Returned
        /\ Len(pv) = Len(row)
        /\ \A i \in DOMAIN row :
               \E typ \in Affinities : pv[i] = ParameterValueOf(row[i], typ)

C22_Witness ==
    /\ pc = "values"
    /\ Len(row) = Len(RealColumns)
    /\ Len(row) >= 2
    /\ row[1] # row[2]
    /\ \E k \in DOMAIN table : ~IsColumn(table[k])

\* the dynamic type of the typed null of an affinity
NullType(typ) ==
    CASE typ = CT_Text    -> "*string"
      [] typ = CT_Integer -> "*int64"
      [] typ = CT_Real    -> "*float64"
      [] typ = CT_Blob    -> "[]byte"
      [] OTHER            -> "nil"

\* the affinity the k-th column of the table is declared with
Declared(k) == columnTypeFromString(RealColumns[k].type)

\* C28: the affinity a schema stores at the index of a column is the
\* affinity of that column: for every column c recorded by NewSchema,
\* Type[Index[c]] is the affinity parsed from the second token of the
\* declaration of c, wherever directives stand in the list, and a null
\* cell that Field binds for c is a null of that affinity.
C28_OwnAffinity ==
    pc = "field" =>
        \A k \in DOMAIN RealColumns :
            LET c == RealColumns[k].name
            IN  (c = call.column /\ c \in DOMAIN schema.Index) =>
                    /\ schema.Index[c] < Len(schema.Type)
                    /\ schema.Type[schema.Index[c] + 1] = Declared(k)
                    /\ (Returned /\ pv[1].val = <<>>) =>
                           pv[1].type = NullType(Declared(k))

\* a + b on 64-bit limbs, with the carry out of bit 63 as a fifth limb
Sum64(a, b) ==
    LET t4 == a[4] + b[4]
        t3 == a[3] + b[3] + t4 \div Base
        t2 == a[2] + b[2] + t3 \div Base
        t1 == a[1] + b[1] + t2 \div Base
    IN  <<t1 \div Base, t1 % Base, t2 % Base, t3 % Base, t4 % Base>>

\* C23: ParameterValue binds a populated integer field as the signed
\* reading of its 64 bits: u < 2^63 binds as u, u >= 2^63 binds as
\* u - 2^64 (a negative value v with |v| + u = 2^64), and no integer is bound
\* as a non-negative value with the high bit set.
C23_SignedInteger ==
    (pv # <<>> /\ row[1].StringParameter = <<>>
               /\ row[1].IntegerParameter # <<>>) =>
        LET u == row[1].IntegerParameter[1]
        IN  /\ pv[1].type = "*int64"
            /\ pv[1].val # <<>>
            /\ LET v == pv[1].val[1]
               IN  /\ u[1] < HighBit => (~v.neg /\ v.mag = u)
                   /\ u[1] >= HighBit =>
                          (v.neg /\ Sum64(v.mag, u) = <<1, 0, 0, 0, 0>>)
                   /\ ~v.neg => v.mag[1] < HighBit

C23_Witness ==
    /\ pv # <<>>
    /\ row[1].IntegerParameter =
           << <<Base - 1, Base - 1, Base - 1, Base - 1>> >>
    /\ pv[1] = Value("*int64", <<[neg |-> TRUE, mag |-> <<0, 0, 0, 1>>]>>)

\* C24: ParameterValue returns the first populated field of the cell in the
\* order string, integer, double, blob, whatever the affinity; only when no
\* field is populated does the affinity decide, and the result is then the
\* typed null of the affinity, the untyped nil for CT_None.
C24_Priority ==
    pv # <<>> =>
        LET p == row[1]
            v == pv[1]
        IN  IF p.StringParameter # <<>>
            THEN v = Value("*string", p.StringParameter)
            ELSE IF p.IntegerParameter # <<>>
            THEN v.type = "*int64" /\ v.val # <<>>
            ELSE IF p.DoubleParameter # <<>>
            THEN v = Value("*float64", p.DoubleParameter)
            ELSE IF p.BlobParameter # <<>>
            THEN v = Value("[]byte", p.BlobParameter)
            ELSE v = Value(NullType(call.typ), <<>>)

C24_Witness ==
    /\ pv # <<>>
    /\ row[1].StringParameter = <<>>
    /\ row[1].IntegerParameter # <<>>
    /\ row[1].BlobParameter # <<>>
    /\ call.typ = CT_Blob
    /\ pv[1].type = "*int64"

RECURSIVE FirstError(_)
FirstError(writes) ==
    IF writes = <<>> THEN NoError
    ELSE IF Head(writes).err # NoError THEN Head(writes).err
    ELSE FirstError(Tail(writes))

\* C27: MultiWriter latches its first write error: a W call made after a
\* write failed performs no write on the underlying writer, a W call made
\* before any failure performs exactly one, and Error() returns the error of
\* the first failed write, nil before any failure.
C27_Latch ==
    [][/\ w'.calls = w.calls + 1 =>
              IF FirstError(w.Writer) # NoError
              THEN w'.Writer = w.Writer
              ELSE Len(w'.Writer) = Len(w.Writer) + 1
       /\ Len(w'.reported) = Len(w.reported) + 1 =>
              w'.reported[Len(w'.reported)] = FirstError(w.Writer)]_vars

C27_Witness ==
    /\ w.calls = 3
    /\ Len(w.Writer) = 2
    /\ w.Writer[2].err = ErrShortWrite
    /\ w.reported = <<ErrShortWrite>>

\* some frame of the file follows an End frame whose value is true
FrameAfterEnd ==
    \E i, j \in DOMAIN FramesOf : i < j /\ GetEnd(FramesOf[i])

\* C26: an End frame does not stop iteration, and AnalyseFile reports
\* frames after an End frame that is true by printing its warning exactly
\* once per run, and only then: when AnalyseFile has returned nil on a
\* well-formed file, every frame of the file was handed to FrameFunc, and
\* the warning was printed once if a frame follows an End frame that is
\* true, and not at all otherwise.
C26_WarnedOnce ==
    (command.name = "AnalyseFile" /\ command.returned = NoError
                                  /\ result.err = NoError) =>
        /\ FrameEvents = ExpectedFrames
        /\ warnings = IF FrameAfterEnd THEN 1 ELSE 0

\* C30: for every value of the length prefix, values below 10 included,
\* Frame returns a decoded frame or an error value and never panics: on a
\* file that holds its declared blobs whole, a panic that ends the call of
\* Consume or Frame was raised by a consumer.
C30_FrameNeverPanics ==
    (pc = "done" /\ result.err = Panic
                 /\ fileSize = EndOf(runs, W(0))
                 /\ \A i \in DOMAIN Bodies : Bodies[i].frame.len[1] = 0) =>
        ret = Panic

\* the writes the sink received are the n plaintext bytes of the blob at p:
\* the bytes of the file from p, in order, each decrypted with the key
\* stream of the call at its own offset in the blob
PlaintextWritten(p, n, ctr) ==
    /\ Written(Len(sink)) = Cat(<<>>, <<FilePiece(p, n)>>)
    /\ \A k \in DOMAIN sink :
          /\ sink[k].iv = uint32ToBytes(hdrIV, ctr)
          /\ sink[k].off = PLen(Written(k - 1))

\* C29: in sink mode DecryptAttachment writes each decrypted chunk before
\* the trailing tag is checked: whenever it returns the integrity error
\* after reading a blob that the file holds whole, the sink has already
\* received all N plaintext bytes of the blob, and Counter has already been
\* incremented.
C29_WrittenBeforeCheck ==
    [][ (/\ pc = "read" /\ dlen = W(0)
         /\ da.out = "sink"
         /\ WLe(WAdd(da.pos0, da.length), fileSize)
         /\ pc' = "done" /\ result'.err = ErrWrongPassword) =>
            /\ PlaintextWritten(da.pos0, da.length, da.ctr0)
            /\ Counter = U32Add(da.ctr0, W(1))
      ]_vars

====
